---- MODULE Spec2Model ----
(***************************************************************************)
(* A model of the autonomous book agent: the orchestration state machine   *)
(* of agent/agent_graph.py over one AgentState (agent/state.py), the       *)
(* planner of agent/planner.py, the provider fallback of                   *)
(* agent/llm_router.py and the tool client and executor of agent/tools.py. *)
(*                                                                         *)
(* Texts are abstracted to the classes the code distinguishes: None, the   *)
(* empty string, whitespace, and named non-empty texts.  A list the code   *)
(* reads only through its length and its last element (the conversation    *)
(* log, the call history) is kept as that length and that element.         *)
(***************************************************************************)
EXTENDS Integers, Sequences, FiniteSets, TLC

VARIABLES
    pc,               \* the node the graph runs next ("route": the conditional edge)
    state,            \* the run's AgentState
    executor_tools,   \* tool_executor.available_tools (process-wide)
    providers_up,     \* the providers whose client is_available()
    evaluator_passes, \* history: how often evaluator_node has run
    became_complete,  \* history: nodes run since is_complete turned true (0: not yet)
    prompted,         \* history: the prompt text tool_caller_node asked with, or None
    rejected_book,    \* history: a create-record call was rejected by validation
    clock,            \* datetime.now(), in seconds
    cached_tools,     \* MCPToolClient._cached_tools
    cache_timestamp,  \* MCPToolClient._cache_timestamp
    request_id,       \* MCPToolClient._request_id
    callers,          \* each session's call of discover_tools: where it is
    calls_started,    \* history: the discover_tools calls begun so far
    cache_writer,     \* history: the calls that wrote the snapshot, the timestamp
    call_log,         \* history: the last two discover_tools calls that returned
    exec_args,        \* an execute_tool call: tool name, input, server outcome
    exec_result,      \* what that call did
    router_args,      \* a router call: credentials, preference, failing calls
    router_run,       \* generate_with_fallback on them: where it is, its calls
    router_default,   \* get_default_provider on them: what it returned
    run_result,       \* what AutonomousAgent.run returned, and on which path
    reported,         \* the names in a tools/list result, as the server lists them
    snapshot,         \* the tool names discover_tools returns for that result
    final_calls,      \* history: the calls of generate_final_response on a session
    pending,          \* one request to a backend: what it is, where it is
    parser,           \* one response text, and what the parser made of it
    web,              \* one web session: its record, its agent thread, its stream
    authors_storage   \* MCPToolClient._authors_storage, and the last author call

sessionVars == <<pc, state, providers_up, evaluator_passes, became_complete,
                 prompted, rejected_book>>

clientVars == <<clock, cached_tools, cache_timestamp, request_id, callers,
                calls_started, cache_writer, call_log>>

execVars == <<exec_args, exec_result>>

routerVars == <<router_args, router_run, router_default>>

auxVars == <<routerVars, run_result, reported, snapshot, final_calls, pending,
             parser, web, authors_storage>>

coreVars == <<sessionVars, executor_tools, clientVars, execVars>>

outsideRouter == <<coreVars, run_result, reported, snapshot, final_calls,
                   pending, parser, web, authors_storage>>

vars == <<sessionVars, executor_tools, clientVars, execVars, auxVars>>

----------------------------------------------------------------------------
(* Bounds of the model and constants of the program *)

MaxPlanLen == 2

MAX_ITERATIONS == 3

ERROR_CEILING == 3

RECENT_ERRORS == 3

----------------------------------------------------------------------------
(* Texts *)

None == "<None>"

\* Python truthiness of an Optional[str]
Truthy(t) == t # None /\ t # ""

\* str.strip() on the texts a model call can return
strip(t) == IF t = " " THEN "" ELSE t

\* The texts a model call can return as a final answer
LLMTexts == {"", " ", "answer"}

DEFAULT_PROMPT == "Please provide the required information."

----------------------------------------------------------------------------
(* llm_router.py *)

Providers == <<"gemini", "openai", "anthropic">>

ProviderSet == {Providers[i] : i \in 1..Len(Providers)}

RECURSIVE SelectSeqIn(_, _)
SelectSeqIn(seq, S) ==
    IF seq = <<>> THEN <<>>
    ELSE IF Head(seq) \in S THEN <<Head(seq)>> \o SelectSeqIn(Tail(seq), S)
         ELSE SelectSeqIn(Tail(seq), S)

\* A router that reports every client as available
get_available_providers_all(up) == Providers

\* LLMRouter.get_available_providers: the clients' order, the available ones
get_available_providers(up) == SelectSeqIn(Providers, up)

\* A fallback that ignores the preference
providers_to_try_no_preference(up, preferred) == get_available_providers(up)

\* The order generate_with_fallback tries the providers in: the preferred
\* one if it is available, then the available ones not yet in the list
providers_to_try(up, preferred) ==
    LET available == get_available_providers(up)
        first == IF /\ preferred # None
                    /\ \E i \in 1..Len(available) : available[i] = preferred
                 THEN <<preferred>>
                 ELSE <<>>
    IN  first \o SelectSeq(available,
                           LAMBDA provider :
                              \A i \in 1..Len(first) : first[i] # provider)

RECURSIVE FirstNotIn(_, _)
FirstNotIn(seq, S) ==
    IF seq = <<>> THEN None
    ELSE IF Head(seq) \notin S THEN Head(seq) ELSE FirstNotIn(Tail(seq), S)

\* LLMRouter.generate_with_fallback, the calls of the providers in `failing`
\* raising: the provider that answered, or None when it raises
generate_with_fallback(up, preferred, failing) ==
    FirstNotIn(providers_to_try(up, preferred), failing)

\* What one provider's client returns, what it raises, and what get_client
\* raises for a provider without a credential
TextOf(provider) == <<"text", provider>>

ErrorOf(provider) == <<"error", provider>>

NotConfigured(provider) == <<"not properly configured", provider>>

\* The values config.DEFAULT_LLM_PROVIDER is set to: a provider's name, or a
\* name LLMProvider does not have
DefaultNames == ProviderSet \cup {"claude"}

NoRouterArgs ==
    [up |-> {}, preferred |-> None, failing |-> {}, default |-> "gemini"]

IdleRun ==
    [pc |-> "idle", to_try |-> <<>>, tried |-> 0, calls |-> <<>>,
     last_error |-> None, text |-> None, provider |-> None, cited |-> None]

NotAsked == [raised |-> "not_asked", provider |-> None]

RouterIdle ==
    /\ router_args = NoRouterArgs
    /\ router_run = IdleRun
    /\ router_default = NotAsked

\* LLMRouter.get_default_provider
get_default_provider(up, default) ==
    LET available == get_available_providers(up)
    IN  IF default \notin ProviderSet
        THEN [raised |-> "not a valid LLMProvider", provider |-> None]
        ELSE IF default \in up THEN [raised |-> None, provider |-> default]
        ELSE IF available # <<>>
        THEN [raised |-> None, provider |-> available[1]]
        ELSE [raised |-> "No LLM providers are properly configured",
              provider |-> None]

----------------------------------------------------------------------------
(* tools.py: the tool catalogue, validation and dispatch *)

\* The tools discover_tools adds when the server does not report them, in
\* the order it adds them
additional_tools ==
    <<"get_all_books", "get_book_by_id", "create_book", "update_book",
      "delete_book", "get_book_count", "add_author", "get_authors",
      "get_author_by_name", "update_author", "delete_author">>

ADDITIONAL_TOOLS == {additional_tools[i] : i \in 1..Len(additional_tools)}

\* No request is due
NoPending ==
    [kind |-> None, transport |-> None, provider |-> None, responds |-> FALSE,
     sdk_timeout |-> FALSE, pc |-> "idle", elapsed |-> 0]

\* discover_tools has not returned
NoSnapshot == [returned |-> FALSE, tools |-> <<>>]

\* An augmentation that adds every local definition
discovered_tools_adds_all(tools_list) == tools_list \o additional_tools

\* discover_tools from the tools/list result on: the server's tools, then
\* each additional tool whose name the server did not report
discovered_tools(tools_list) ==
    LET existing_tool_names == {tools_list[i] : i \in 1..Len(tools_list)}
    IN  tools_list \o SelectSeq(additional_tools,
                                LAMBDA name : name \notin existing_tool_names)

\* The tools a server's tools/list can report
ServerTools == {"list_books", "add_book"}

\* A tool reported without an inputSchema: input_schema is {}
NoSchema == [present |-> FALSE, required |-> {}, properties |-> [f \in {} |-> ""]]

\* The tools call_tool serves from the client's own author store
AUTHOR_TOOLS ==
    {"add_author", "get_authors", "get_author_by_name", "update_author",
     "delete_author"}

\* ToolMetadata.input_schema by tool name: required fields, declared types.
\* Of the optional fields, year stands for the integer ones (birth_year) and
\* title for the string ones (genre, isbn, bio, nationality, new_name)
input_schema(name) ==
    CASE name \in {"create_book", "add_book"} ->
            [present |-> TRUE, required |-> {"title", "author"},
             properties |-> [title |-> "string", author |-> "string",
                             year |-> "integer"]]
      [] name = "get_book_by_id" ->
            [present |-> TRUE, required |-> {"id"},
             properties |-> [id |-> "integer"]]
      [] name = "update_book" ->
            [present |-> TRUE, required |-> {"book_id"},
             properties |-> [book_id |-> "integer", title |-> "string",
                             author |-> "string", year |-> "integer"]]
      [] name = "delete_book" ->
            [present |-> TRUE, required |-> {"book_id"},
             properties |-> [book_id |-> "integer"]]
      [] name \in {"add_author", "update_author"} ->
            [present |-> TRUE, required |-> {"name"},
             properties |-> [name |-> "string", year |-> "integer"]]
      [] name \in {"get_author_by_name", "delete_author"} ->
            [present |-> TRUE, required |-> {"name"},
             properties |-> [name |-> "string"]]
      [] name \in ADDITIONAL_TOOLS ->
            [present |-> TRUE, required |-> {}, properties |-> [f \in {} |-> ""]]
      [] OTHER -> NoSchema

\* The kinds of value an input field can hold; Absent: the field is not given
ValueKinds == {"str", "int", "float", "bool"}

Absent == "absent"

InputFields == {"title", "author", "year", "id", "book_id", "name"}

InputData == [InputFields -> ValueKinds \cup {Absent}]

\* isinstance(value, type_mapping[expected_type]); bool is a subclass of int
validate_type(kind, expected_type) ==
    CASE expected_type = "string" -> kind = "str"
      [] expected_type = "number" -> kind \in {"int", "float", "bool"}
      [] expected_type = "integer" -> kind \in {"int", "bool"}
      [] expected_type = "boolean" -> kind = "bool"
      [] OTHER -> TRUE

\* MCPToolClient.validate_tool_input: the error list, as the set of
\* <<what, field>> it holds
validate_tool_input(name, input_data) ==
    LET schema == input_schema(name)
        missing == {<<"missing", f>> : f \in {g \in schema.required :
                                                  input_data[g] = Absent}}
        typed == {<<"type", f>> : f \in
                    {g \in DOMAIN schema.properties :
                        /\ input_data[g] # Absent
                        /\ ~validate_type(input_data[g], schema.properties[g])}}
    IN  IF ~schema.present THEN {} ELSE missing \cup typed

\* str.lower() on the tool names the model can be handed
lower(name) ==
    CASE name = "Create_Book" -> "create_book"
      [] OTHER -> name

\* MCPToolClient.get_tool_by_name: case-insensitive
get_tool_by_name(tools, name) ==
    IF \E t \in tools : lower(t) = lower(name)
    THEN CHOOSE t \in tools : lower(t) = lower(name)
    ELSE None

NoRequest == [method |-> "none"]

\* A mapping that sends every name as it is called
tool_mapping_unmapped(name) == name

\* call_tool's tool_mapping
tool_mapping(name) ==
    CASE name = "get_book_by_id" -> "get_book_details"
      [] name = "create_book" -> "add_book"
      [] OTHER -> name

\* What the server does with one tools/call request: it answers with data,
\* with an empty object or list, with the JSON text null as its content, or
\* the request fails (a JSON-RPC error or a transport failure, the same
\* exception to call_tool) or is answered by what is not JSON
ServerOutcomes == {"data", "empty", "null", "rpc_error", "invalid_json"}

\* A call_tool that returns the server's error object as its result
call_tool_returns_error_object(tool, input_data, outcome) ==
    LET request == [method |-> "tools/call", name |-> tool_mapping(tool),
                    arguments |-> input_data]
    IN  IF tool \in AUTHOR_TOOLS
        THEN [request |-> NoRequest, output |-> "data", error |-> None]
        ELSE IF outcome \in {"data", "rpc_error"}
        THEN [request |-> request, output |-> "data", error |-> None]
        ELSE IF outcome = "empty"
        THEN [request |-> request, output |-> "empty", error |-> None]
        ELSE IF outcome = "null"
        THEN [request |-> request, output |-> None, error |-> None]
        ELSE [request |-> request, output |-> None, error |-> "invalid"]

\* MCPToolClient.call_tool: the request sent and the result or the exception
call_tool(tool, input_data, outcome) ==
    LET mapped_input_data ==
            IF tool = "get_book_by_id" /\ input_data["id"] # Absent
            THEN [input_data EXCEPT !["book_id"] = input_data["id"],
                                    !["id"] = Absent]
            ELSE input_data
        request == [method |-> "tools/call", name |-> tool_mapping(tool),
                    arguments |-> mapped_input_data]
    IN  CASE tool \in AUTHOR_TOOLS ->
                [request |-> NoRequest, output |-> "data", error |-> None]
          [] outcome = "data" ->
                [request |-> request, output |-> "data", error |-> None]
          [] outcome = "empty" ->
                [request |-> request, output |-> "empty", error |-> None]
          [] outcome = "null" ->
                [request |-> request, output |-> None, error |-> None]
          [] outcome = "invalid_json" ->
                [request |-> request, output |-> None, error |-> "invalid"]
          [] OTHER ->
                [request |-> request, output |-> None, error |-> "failed"]

\* The names an author tool is called with; "": an empty name
AuthorNames == {"Ann", "Bob", ""}

MaxAuthorCalls == 4

\* The position of the first author of that name; 0: there is none
first_author(storage, name) ==
    IF \E i \in 1..Len(storage) : storage[i] = name
    THEN CHOOSE i \in 1..Len(storage) :
            storage[i] = name /\ \A j \in 1..(i - 1) : storage[j] # name
    ELSE 0

\* MCPToolClient._handle_author_tool on the names of the stored authors:
\* the storage it leaves and whether it returned success or an error object
handle_author_tool(storage, tool_name, name, new_name) ==
    LET i == first_author(storage, name)
        failed == [storage |-> storage, result |-> "error"]
    IN  CASE tool_name = "get_authors" ->
                [storage |-> storage, result |-> "success"]
          [] name \in {"", Absent} -> failed
          [] tool_name = "add_author" ->
                IF i # 0 THEN failed
                ELSE [storage |-> Append(storage, name), result |-> "success"]
          [] tool_name = "get_author_by_name" ->
                IF i = 0 THEN failed
                ELSE [storage |-> storage, result |-> "success"]
          [] tool_name = "update_author" ->
                IF i = 0 THEN failed
                ELSE [storage |-> IF new_name = Absent THEN storage
                                  ELSE [storage EXCEPT ![i] = new_name],
                      result |-> "success"]
          [] tool_name = "delete_author" ->
                IF i = 0 THEN failed
                ELSE [storage |-> SubSeq(storage, 1, i - 1)
                                     \o SubSeq(storage, i + 1, Len(storage)),
                      result |-> "success"]
          [] OTHER -> failed

\* No author tool has been called
NoAuthors == [storage |-> <<>>, calls |-> 0,
              last |-> [tool_name |-> None, name |-> None, new_name |-> None,
                        result |-> None, before |-> <<>>]]

\* ToolExecutor.execute_tool: raised names the ValueError it raises, else call
\* holds the ToolCall it returns
execute_tool(tools, tool_name, input_data, outcome) ==
    LET tool == get_tool_by_name(tools, tool_name)
        errors == validate_tool_input(tool, input_data)
        r == call_tool(tool, input_data, outcome)
    IN  IF tool = None
        THEN [raised |-> "not_found", errors |-> {}, request |-> NoRequest,
              call |-> None]
        ELSE IF errors # {}
        THEN [raised |-> "invalid_input", errors |-> errors,
              request |-> NoRequest, call |-> None]
        ELSE [raised |-> None, errors |-> {}, request |-> r.request,
              call |-> [name |-> tool, input_data |-> input_data,
                        output |-> r.output, error |-> r.error]]

----------------------------------------------------------------------------
(* web/app.py: a session, the thread that runs its agent, its event stream *)

\* The messages a session can hold from earlier requests
MaxEarlier == 2

\* No chat request has come in and no stream is open
NoWeb ==
    [session |-> [status |-> "idle", messages |-> <<>>],
     run_agent |-> "idle",
     stream |-> [pc |-> "closed", last_message_count |-> 0,
                 last_status |-> None, status_sent |-> FALSE,
                 completion_sent |-> FALSE, sent |-> <<>>]]

\* SessionManager.add_message
session_add_message(session, role, content) ==
    [session EXCEPT !.messages = Append(@, [role |-> role, content |-> content])]

----------------------------------------------------------------------------
(* state.py: AgentState and its methods *)

\* The errors the code tells apart by their text: a validation failure names
\* its tool ("Invalid input for tool <name>"), every other error is Failure
InvalidInput(tool_name) == <<"Invalid input for tool", tool_name>>

Failure == <<"error", "-">>

NoMessage == [role |-> None, content |-> None]

NoCall == [name |-> None, output |-> None, error |-> None]

\* AutonomousAgent.run: AgentState(user_goal, user_message, selected_llm)
InitialState(llm) ==
    [selected_llm |-> llm,
     messages |-> [n |-> 0, last |-> NoMessage],
     available_tools |-> {},
     tool_calls |-> [n |-> 0, last |-> NoCall],
     current_tool_outputs |-> {},
     current_plan |-> None,
     execution_steps |-> <<>>,
     completed_steps |-> <<>>,
     original_plan_steps |-> <<>>,
     iteration_count |-> 0,
     is_complete |-> FALSE,
     needs_user_input |-> FALSE,
     intermediate_results |-> 0,
     final_response |-> None,
     errors |-> <<>>,
     session_id |-> None,
     start_time |-> None]

add_message(s, role, content) ==
    [s EXCEPT !.messages = [n |-> @.n + 1,
                            last |-> [role |-> role, content |-> content]]]

add_error(s, error) == [s EXCEPT !.errors = Append(@, error)]

increment_iteration(s) == [s EXCEPT !.iteration_count = @ + 1]

mark_complete(s, final_response) ==
    [s EXCEPT !.is_complete = TRUE, !.final_response = final_response]

append_tool_call(s, call) ==
    [s EXCEPT !.tool_calls = [n |-> @.n + 1, last |-> call]]

----------------------------------------------------------------------------
(* What the language model can answer *)

\* A truthy value that is not a string (an object or a number in the JSON)
NonString == "<non-string>"

ToolStep == [action |-> "tool_call", prompt |-> None, wellformed |-> TRUE]

PromptStep(p) == [action |-> "prompt_user", prompt |-> p, wellformed |-> TRUE]

\* A plan entry without the "step" or "description" key the rendering reads
BadStep == [action |-> "tool_call", prompt |-> None, wellformed |-> FALSE]

PlanSteps == {ToolStep, PromptStep("Which title?"), BadStep}

RECURSIVE SeqsUpTo(_, _)
SeqsUpTo(S, n) ==
    IF n = 0 THEN {<<>>}
    ELSE LET shorter == SeqsUpTo(S, n - 1)
         IN  shorter \cup {Append(q, x) : q \in shorter, x \in S}

\* The answers to the planning prompt: free text, or a JSON object with a plan
PlanResponses ==
    {[json |-> FALSE, plan |-> <<>>]}
        \cup {[json |-> TRUE, plan |-> q] : q \in SeqsUpTo(PlanSteps, MaxPlanLen)}

\* The tool names and inputs the model selects among
SelectableTools == {"get_all_books", "create_book", "count_books"}

NoInput == [f \in InputFields |-> Absent]

SelectableInputs ==
    {[NoInput EXCEPT !["title"] = "str"],
     [NoInput EXCEPT !["title"] = "str", !["author"] = "str"],
     [NoInput EXCEPT !["title"] = "str", !["author"] = "str", !["year"] = "str"]}

\* The answers to the tool-selection prompt
SelectionResponses ==
    {[json |-> FALSE, tool_name |-> None, inputs |-> NoInput],
     [json |-> TRUE, tool_name |-> None, inputs |-> NoInput]}
        \cup {[json |-> TRUE, tool_name |-> t, inputs |-> i] :
                t \in SelectableTools, i \in SelectableInputs}

\* The answers to the evaluation prompt; response None: the key is absent
EvaluationResponses ==
    {[json |-> FALSE, evaluation |-> t, next_action |-> "continue",
      response |-> t] : t \in {"", "raw"}}
        \cup {[json |-> TRUE, evaluation |-> ev, next_action |-> a,
               response |-> "reply"] :
                ev \in {"", "assessment"},
                a \in {"continue", "complete", "user_input", "error"}}
        \cup {[json |-> TRUE, evaluation |-> "assessment",
               next_action |-> "complete", response |-> r] :
                r \in {None, "", NonString}}

\* One call of the router: the providers whose call raises, and the answer
\* of the first that does not
Reply(failing, body) == [failing |-> failing, body |-> body]

\* The calls whose caller drops the answering provider: every provider
\* raising, or none raising and the first one answering with a body of B
Replies(up, B) == {Reply(up, CHOOSE b \in B : TRUE)} \cup {Reply({}, b) : b \in B}

\* An exception raised inside evaluator_node's try, in place of an answer
Fault ==
    Reply({}, [json |-> FALSE, evaluation |-> "", next_action |-> "raise",
               response |-> ""])

----------------------------------------------------------------------------
(* planner.py: the response text, token by token *)

\* The text of a response: "{" and "}" are the braces, "m" is a member with
\* a scalar value, "x" is any other text. A pair of braces inside an object
\* stands for a member whose value is an object
ResponseTokens == {"{", "}", "m", "x"}

MaxTextLen == 5

\* str.find and str.rfind, counting from 0; -1: not in the text
find(text, c) ==
    IF \E i \in 1..Len(text) : text[i] = c
    THEN (CHOOSE i \in 1..Len(text) :
             text[i] = c /\ \A j \in 1..(i - 1) : text[j] # c) - 1
    ELSE -1

rfind(text, c) ==
    IF \E i \in 1..Len(text) : text[i] = c
    THEN (CHOOSE i \in 1..Len(text) :
             text[i] = c /\ \A j \in (i + 1)..Len(text) : text[j] # c) - 1
    ELSE -1

\* The braces open after the first i tokens
RECURSIVE Depth(_, _)
Depth(text, i) ==
    IF i = 0 THEN 0
    ELSE Depth(text, i - 1) + (IF text[i] = "{" THEN 1
                               ELSE IF text[i] = "}" THEN -1 ELSE 0)

\* json.loads accepts the text: one object and nothing else
IsJsonObject(text) ==
    /\ Len(text) >= 2
    /\ text[1] = "{"
    /\ \A i \in 1..Len(text) : text[i] # "x"
    /\ \A i \in 1..(Len(text) - 1) : Depth(text, i) >= 1
    /\ Depth(text, Len(text)) = 0

\* _parse_plan_response, _parse_evaluation_response, _parse_tool_selection:
\* the span handed to json.loads and what comes back; parsed FALSE: the
\* fallback object
extract_json(response) ==
    LET json_start == find(response, "{")
        json_end == rfind(response, "}") + 1
        json_str == SubSeq(response, json_start + 1, json_end)
    IN  IF json_start >= 0 /\ json_end > json_start
        THEN IF IsJsonObject(json_str)
             THEN [json_str |-> json_str, parsed |-> TRUE, value |-> json_str]
             ELSE [json_str |-> json_str, parsed |-> FALSE, value |-> <<>>]
        ELSE [json_str |-> <<>>, parsed |-> FALSE, value |-> <<>>]

\* No response has been parsed
NotParsed == [response |-> <<>>, returned |-> FALSE, result |-> extract_json(<<>>)]

----------------------------------------------------------------------------
(* planner.py *)

\* _parse_plan_response: the first { to the last } parsed as JSON, else the
\* text as analysis with an empty plan
parse_plan_response(response) ==
    IF response.json
    THEN [analysis |-> "analysis", plan |-> response.plan, parsed |-> TRUE]
    ELSE [analysis |-> "raw", plan |-> <<>>, parsed |-> FALSE]

\* The description create_initial_plan renders for plan entry i
render_step(step, i) ==
    [n |-> i,
     prompt |-> IF step.action = "prompt_user"
                THEN (IF step.prompt = None THEN "Ask user for input"
                      ELSE step.prompt)
                ELSE None]

\* The entries rendered before the loop meets an entry it cannot render
RECURSIVE render_steps(_, _)
render_steps(plan, i) ==
    IF i > Len(plan) \/ ~plan[i].wellformed THEN <<>>
    ELSE <<render_step(plan[i], i)>> \o render_steps(plan, i + 1)

\* create_initial_plan leaving selected_llm as it was
create_initial_plan_keeps_provider(s, up, reply) ==
    LET used == generate_with_fallback(up, s.selected_llm, reply.failing)
        plan_data == parse_plan_response(reply.body)
        s1 == [s EXCEPT !.current_plan = plan_data.analysis,
                        !.execution_steps = render_steps(plan_data.plan, 1),
                        !.original_plan_steps = plan_data.plan]
        raised == \E i \in 1..Len(plan_data.plan) : ~plan_data.plan[i].wellformed
    IN  IF used = None
        THEN [state |-> add_error(s, Failure), error |-> TRUE]
        ELSE IF raised
        THEN [state |-> add_error(s1, Failure), error |-> TRUE]
        ELSE [state |-> s1, error |-> FALSE]

\* AgentPlanner.create_initial_plan: the state it leaves and whether its
\* result holds "error"
create_initial_plan(s, up, reply) ==
    LET used == generate_with_fallback(up, s.selected_llm, reply.failing)
        plan_data == parse_plan_response(reply.body)
        s1 == [s EXCEPT !.selected_llm = used,
                        !.current_plan = plan_data.analysis,
                        !.execution_steps = render_steps(plan_data.plan, 1),
                        !.original_plan_steps = plan_data.plan]
        raised == \E i \in 1..Len(plan_data.plan) : ~plan_data.plan[i].wellformed
    IN  IF used = None
        THEN [state |-> add_error(s, Failure), error |-> TRUE]
        ELSE IF raised
        THEN [state |-> add_error(s1, Failure), error |-> TRUE]
        ELSE [state |-> s1, error |-> FALSE]

\* _parse_tool_selection
parse_tool_selection(response) ==
    IF response.json
    THEN [kind |-> "tool", tool_name |-> response.tool_name,
          inputs |-> response.inputs, prompt |-> None]
    ELSE [kind |-> "error", tool_name |-> None, inputs |-> NoInput,
          prompt |-> None]

NoSelection == [kind |-> "none", tool_name |-> None, inputs |-> NoInput,
                prompt |-> None]

\* select_next_tool asking the model before it looks at the plan's step
select_next_tool_asks_first(s, up, reply) ==
    LET next_step_index == Len(s.completed_steps) + 1
        original_step == s.original_plan_steps[next_step_index]
        used == generate_with_fallback(up, s.selected_llm, reply.failing)
    IN  IF s.is_complete \/ s.execution_steps = <<>>
        THEN [state |-> s, selection |-> NoSelection]
        ELSE IF next_step_index > Len(s.execution_steps)
        THEN [state |-> s, selection |-> NoSelection]
        ELSE IF used = None
        THEN [state |-> add_error(s, Failure), selection |-> NoSelection]
        ELSE IF /\ next_step_index <= Len(s.original_plan_steps)
                /\ original_step.action = "prompt_user"
        THEN [state |-> s,
              selection |-> [kind |-> "prompt_user", tool_name |-> None,
                             inputs |-> NoInput,
                             prompt |-> IF original_step.prompt = None
                                        THEN DEFAULT_PROMPT
                                        ELSE original_step.prompt]]
        ELSE [state |-> s, selection |-> parse_tool_selection(reply.body)]

\* AgentPlanner.select_next_tool: the state it leaves and its selection
select_next_tool(s, up, reply) ==
    LET next_step_index == Len(s.completed_steps) + 1
        original_step == s.original_plan_steps[next_step_index]
        used == generate_with_fallback(up, s.selected_llm, reply.failing)
    IN  IF s.is_complete \/ s.execution_steps = <<>>
        THEN [state |-> s, selection |-> NoSelection]
        ELSE IF next_step_index > Len(s.execution_steps)
        THEN [state |-> s, selection |-> NoSelection]
        ELSE IF /\ next_step_index <= Len(s.original_plan_steps)
                /\ original_step.action = "prompt_user"
        THEN [state |-> s,
              selection |-> [kind |-> "prompt_user", tool_name |-> None,
                             inputs |-> NoInput,
                             prompt |-> IF original_step.prompt = None
                                        THEN DEFAULT_PROMPT
                                        ELSE original_step.prompt]]
        ELSE IF used = None
        THEN [state |-> add_error(s, Failure), selection |-> NoSelection]
        ELSE [state |-> s, selection |-> parse_tool_selection(reply.body)]

\* _parse_evaluation_response
parse_evaluation_response(response) ==
    [evaluation |-> response.evaluation, next_action |-> response.next_action,
     response |-> response.response]

\* AgentPlanner.evaluate_progress: the state it leaves and its evaluation
evaluate_progress(s, up, reply) ==
    LET used == generate_with_fallback(up, s.selected_llm, reply.failing)
        evaluation == parse_evaluation_response(reply.body)
        next_action == evaluation.next_action
    IN  IF used = None
        THEN [state |-> add_error(s, Failure),
              evaluation |-> [evaluation |-> "Unable to evaluate progress",
                              next_action |-> "error", response |-> "error"]]
        ELSE [state |->
                CASE next_action = "complete" ->
                        mark_complete(s, IF evaluation.response = None
                                         THEN "Task completed successfully."
                                         ELSE evaluation.response)
                  [] next_action = "user_input" ->
                        [s EXCEPT !.needs_user_input = TRUE]
                  [] next_action = "error" -> add_error(s, Failure)
                  [] OTHER -> s,
              evaluation |-> evaluation]

\* AgentPlanner.generate_final_response
generate_final_response(s, up, reply) ==
    IF Truthy(s.final_response) THEN s.final_response
    ELSE IF generate_with_fallback(up, s.selected_llm, reply.failing) = None
    THEN "Task execution completed with some issues."
    ELSE strip(reply.body)

----------------------------------------------------------------------------
(* agent_graph.py: the nodes *)

\* What a discovery by tool_executor.initialize leaves in available_tools:
\* nothing when it failed, else the server's tools and the additional ones
DiscoveryResults == {{}, ADDITIONAL_TOOLS \cup ServerTools}

\* AgentNodes.initialize_node, the executor's tools being `tools` after
\* tool_executor.initialize()
initialize_node(s, tools) ==
    LET s1 == [s EXCEPT !.session_id = IF @ = None THEN "uuid" ELSE @,
                        !.start_time = IF @ = None THEN "now" ELSE @,
                        !.available_tools = tools]
    IN  add_message(s1, "user", "goal")

\* AgentNodes.planner_node
planner_node(s, up, reply) ==
    LET r == create_initial_plan(s, up, reply)
    IN  IF r.error THEN add_error(r.state, Failure)
        ELSE add_message(r.state, "assistant", "I've created a plan")

\* completed_steps.append(execution_steps[len(completed_steps)])
complete_next_step(s) ==
    [s EXCEPT !.completed_steps =
                Append(@, s.execution_steps[Len(s.completed_steps) + 1])]

\* A tool caller that asks the user when nothing was selected
tool_caller_node_asks_user(s, tools, up, reply, outcome) ==
    LET r == select_next_tool(s, up, reply)
    IN  [add_error(r.state, Failure) EXCEPT !.needs_user_input = TRUE]

\* AgentNodes.tool_caller_node
tool_caller_node(s, tools, up, reply, outcome) ==
    LET r == select_next_tool(s, up, reply)
        s1 == r.state
        sel == r.selection
        x == execute_tool(tools, sel.tool_name, sel.inputs, outcome)
        asked == add_message([s1 EXCEPT !.needs_user_input = TRUE],
                             "assistant", sel.prompt)
        called == append_tool_call(s1, [name |-> x.call.name,
                                        output |-> x.call.output,
                                        error |-> x.call.error])
    IN  IF sel.kind \in {"none", "error"} THEN add_error(s1, Failure)
        ELSE IF sel.kind = "prompt_user"
        THEN (IF Len(asked.completed_steps) < Len(asked.execution_steps)
              THEN complete_next_step(asked) ELSE asked)
        ELSE IF sel.tool_name = None THEN add_error(s1, Failure)
        ELSE IF x.raised = "not_found" THEN add_error(s1, Failure)
        ELSE IF x.raised = "invalid_input"
        THEN add_error(s1, InvalidInput(sel.tool_name))
        ELSE IF x.call.output = "data"
        THEN [called EXCEPT !.current_tool_outputs = @ \cup {sel.tool_name}]
        ELSE IF x.call.error # None THEN add_error(called, Failure)
        ELSE called

\* An executor that leaves the iteration counter alone
executor_node_no_increment(s) ==
    IF /\ s.current_tool_outputs # {}
       /\ Len(s.completed_steps) < Len(s.execution_steps)
    THEN complete_next_step(s) ELSE s

\* AgentNodes.executor_node
executor_node(s) ==
    LET s1 == IF /\ s.current_tool_outputs # {}
                 /\ Len(s.completed_steps) < Len(s.execution_steps)
              THEN complete_next_step(s) ELSE s
        s2 == IF s1.current_tool_outputs # {}
              THEN [s1 EXCEPT !.intermediate_results = @ + 1] ELSE s1
    IN  increment_iteration(s2)

BOOK_TOOLS == {"create_book", "add_book"}

\* AgentNodes._provide_enhanced_error_guidance for a failed call of tool
\* `name` whose error text does (invalid) or does not hold "invalid"
provide_enhanced_error_guidance(tools, name, invalid) ==
    IF name \in BOOK_TOOLS /\ invalid
    THEN (IF name \in tools THEN "field-by-field guidance" ELSE None)
    ELSE IF invalid THEN "generic validation guidance"
    ELSE None

\* The last RECENT_ERRORS errors
recent_errors(errors) ==
    IF Len(errors) >= RECENT_ERRORS
    THEN SubSeq(errors, Len(errors) - RECENT_ERRORS + 1, Len(errors))
    ELSE errors

\* The tool named by the first recent error that reports invalid input for
\* create_book or add_book, or None
RECURSIVE first_book_validation_error(_)
first_book_validation_error(errors) ==
    IF errors = <<>> THEN None
    ELSE IF Head(errors)[1] = "Invalid input for tool" /\ Head(errors)[2] \in BOOK_TOOLS
    THEN Head(errors)[2]
    ELSE first_book_validation_error(Tail(errors))

\* evaluator_node's search for a validation failure to answer with guidance
validation_guidance(s, tools) ==
    LET book == first_book_validation_error(recent_errors(s.errors))
        from_errors == IF book = None THEN None
                       ELSE provide_enhanced_error_guidance(tools, book, TRUE)
        last == s.tool_calls.last
        from_call == IF s.tool_calls.n > 0 /\ last.error # None
                     THEN provide_enhanced_error_guidance(
                              tools, last.name, last.error = "invalid")
                     ELSE None
    IN  IF s.errors = <<>> THEN None
        ELSE IF from_errors # None THEN from_errors
        ELSE from_call

\* The except clause of evaluator_node
evaluator_failed(s) ==
    LET s1 == add_error(s, Failure)
    IN  IF ~s1.is_complete
        THEN mark_complete(s1, "Task completed with evaluation error")
        ELSE s1

\* evaluator_node from the call of evaluate_progress on
evaluate_and_branch(s, up, e, f) ==
    LET r == evaluate_progress(s, up, e)
        s1 == IF Truthy(r.evaluation.evaluation)
              THEN add_message(r.state, "assistant", "Progress update")
              ELSE r.state
    IN  IF /\ r.evaluation.next_action = "continue"
           /\ \/ s1.execution_steps = <<>>
              \/ Len(s1.completed_steps) >= Len(s1.execution_steps)
           /\ s1.tool_calls.n = 0
           /\ ~Truthy(s1.final_response)
        THEN mark_complete(s1, generate_final_response(s1, up, f))
        ELSE s1

\* evaluator_node with the ceiling test written > in place of >=
evaluator_node_late_ceiling(s, tools, up, e, f) ==
    LET guidance == validation_guidance(s, tools)
    IN  IF s.iteration_count > MAX_ITERATIONS
        THEN [add_error(s, Failure) EXCEPT !.is_complete = TRUE]
        ELSE IF /\ s.execution_steps # <<>>
                /\ Len(s.completed_steps) >= Len(s.execution_steps)
        THEN (IF ~Truthy(s.final_response)
              THEN mark_complete(s, generate_final_response(s, up, f))
              ELSE s)
        ELSE IF guidance # None THEN mark_complete(s, guidance)
        ELSE IF e.body.next_action = "raise" THEN evaluator_failed(s)
        ELSE evaluate_and_branch(s, up, e, f)

\* AgentNodes.evaluator_node; e and f are the answers to the evaluation and
\* the final-answer prompt
evaluator_node(s, tools, up, e, f) ==
    LET guidance == validation_guidance(s, tools)
    IN  IF s.iteration_count >= MAX_ITERATIONS
        THEN [add_error(s, Failure) EXCEPT !.is_complete = TRUE]
        ELSE IF /\ s.execution_steps # <<>>
                /\ Len(s.completed_steps) >= Len(s.execution_steps)
        THEN (IF ~Truthy(s.final_response)
              THEN mark_complete(s, generate_final_response(s, up, f))
              ELSE s)
        ELSE IF guidance # None THEN mark_complete(s, guidance)
        ELSE IF e.body.next_action = "raise" THEN evaluator_failed(s)
        ELSE evaluate_and_branch(s, up, e, f)

\* A finish node that takes no notice of needs_user_input
finish_node_always_generates(s, up, f) ==
    LET generated == IF ~Truthy(s.final_response)
                     THEN mark_complete(s, generate_final_response(s, up, f))
                     ELSE s
    IN  add_message(generated, "assistant", generated.final_response)

\* AgentNodes.finish_node
finish_node(s, up, f) ==
    LET generated == IF ~Truthy(s.final_response)
                     THEN mark_complete(s, generate_final_response(s, up, f))
                     ELSE s
    IN  IF s.needs_user_input
        THEN (IF s.messages.n > 0 /\ s.messages.last.role = "assistant"
              THEN mark_complete(s, s.messages.last.content)
              ELSE mark_complete(s, "Please provide more information to continue."))
        ELSE IF generated.final_response = NonString
        THEN mark_complete(add_error(generated, Failure),
                           "Task completed with errors")
        ELSE add_message(generated, "assistant", generated.final_response)

\* should_continue sending an unfinished plan back to the evaluator, past the
\* executor that counts the iterations
should_continue_skips_executor(s) ==
    IF s.is_complete THEN [next |-> "finish", state |-> s]
    ELSE IF Len(s.errors) > ERROR_CEILING
    THEN [next |-> "finish", state |-> [s EXCEPT !.is_complete = TRUE]]
    ELSE IF s.needs_user_input THEN [next |-> "finish", state |-> s]
    ELSE IF s.execution_steps = <<>> THEN [next |-> "planner", state |-> s]
    ELSE IF Len(s.completed_steps) >= Len(s.execution_steps)
    THEN [next |-> "finish", state |-> s]
    ELSE [next |-> "evaluator", state |-> s]

\* should_continue sending a run with errors back to the planner
should_continue_replans(s) ==
    IF s.is_complete THEN [next |-> "finish", state |-> s]
    ELSE IF Len(s.errors) > ERROR_CEILING
    THEN [next |-> "finish", state |-> [s EXCEPT !.is_complete = TRUE]]
    ELSE IF s.needs_user_input THEN [next |-> "finish", state |-> s]
    ELSE IF s.execution_steps = <<>> \/ s.errors # <<>>
    THEN [next |-> "planner", state |-> s]
    ELSE IF Len(s.completed_steps) >= Len(s.execution_steps)
    THEN [next |-> "finish", state |-> s]
    ELSE [next |-> "tool_caller", state |-> s]

\* should_continue testing needs_user_input before the error count
should_continue_prompt_first(s) ==
    IF s.is_complete THEN [next |-> "finish", state |-> s]
    ELSE IF s.needs_user_input THEN [next |-> "finish", state |-> s]
    ELSE IF Len(s.errors) > ERROR_CEILING
    THEN [next |-> "finish", state |-> [s EXCEPT !.is_complete = TRUE]]
    ELSE IF s.execution_steps = <<>> THEN [next |-> "planner", state |-> s]
    ELSE IF Len(s.completed_steps) >= Len(s.execution_steps)
    THEN [next |-> "finish", state |-> s]
    ELSE [next |-> "tool_caller", state |-> s]

\* should_continue: the node it names and the state it leaves
should_continue(s) ==
    IF s.is_complete THEN [next |-> "finish", state |-> s]
    ELSE IF Len(s.errors) > ERROR_CEILING
    THEN [next |-> "finish", state |-> [s EXCEPT !.is_complete = TRUE]]
    ELSE IF s.needs_user_input THEN [next |-> "finish", state |-> s]
    ELSE IF s.execution_steps = <<>> THEN [next |-> "planner", state |-> s]
    ELSE IF Len(s.completed_steps) >= Len(s.execution_steps)
    THEN [next |-> "finish", state |-> s]
    ELSE [next |-> "tool_caller", state |-> s]

----------------------------------------------------------------------------
(* tools.py: the tool client's discovery cache, shared by every session *)

\* Seconds a cached snapshot stays valid: MCPToolClient._cache_ttl
CACHE_TTL == 300

\* discover_tools calls begun in one behaviour
MaxCalls == 3

\* Times the clock advances in one behaviour
MaxTicks == 3

\* _cached_tools and _cache_timestamp before the first discovery: None
Unset == {None}

NoTimestamp == -1

\* The web sessions, each on a thread of its own with the one tool_executor
Sessions == {1, 2}

\* What the server answers to one discovery request
DiscoveryOutcomes == {"ok", "rpc_error", "transport_error"}

\* The tool lists a tools/list response can carry
ServerLists == {{}, ServerTools}

\* _is_cache_valid with the age test written <= in place of <
is_cache_valid_inclusive(tools, timestamp, now) ==
    IF tools = Unset \/ tools = {} \/ timestamp = NoTimestamp THEN FALSE
    ELSE now - timestamp <= CACHE_TTL

\* MCPToolClient._is_cache_valid, with datetime.now() as now
is_cache_valid(tools, timestamp, now) ==
    IF tools = Unset \/ tools = {} \/ timestamp = NoTimestamp THEN FALSE
    ELSE now - timestamp < CACHE_TTL

Cache == [tools |-> cached_tools, timestamp |-> cache_timestamp]

IdleCaller ==
    [pc |-> "idle", id |-> 0, force |-> FALSE, started_at |-> 0,
     cache_before |-> [tools |-> Unset, timestamp |-> NoTimestamp],
     n_init |-> 0, n_list |-> 0, outcome |-> None, result |-> Unset]

ClientIdle ==
    /\ clock = 0
    /\ cached_tools = Unset
    /\ cache_timestamp = NoTimestamp
    /\ request_id = 1
    /\ callers = [c \in Sessions |-> IdleCaller]
    /\ calls_started = 0
    /\ cache_writer = [tools |-> 0, timestamp |-> 0]
    /\ call_log = <<>>

\* discover_tools up to its first await: the cache check, then either the
\* cached snapshot or the initialize payload.  force is force_refresh: FALSE
\* from ToolExecutor.initialize, TRUE from ToolExecutor.refresh_tools
StartCall(c, force) ==
    /\ callers[c].pc = "idle"
    /\ calls_started < MaxCalls
    /\ calls_started' = calls_started + 1
    /\ LET call == [IdleCaller EXCEPT !.id = calls_started + 1,
                                      !.force = force,
                                      !.started_at = clock,
                                      !.cache_before = Cache]
       IN  IF ~force /\ is_cache_valid(cached_tools, cache_timestamp, clock)
           THEN callers' = [callers EXCEPT ![c] =
                               [call EXCEPT !.pc = "return", !.outcome = "hit",
                                            !.result = cached_tools]]
           ELSE callers' = [callers EXCEPT ![c] =
                               [call EXCEPT !.pc = "initialize"]]
    /\ UNCHANGED <<clock, cached_tools, cache_timestamp, request_id,
                   cache_writer, call_log, executor_tools>>
    /\ UNCHANGED <<sessionVars, execVars, auxVars>>

\* The initialize request and the check of its response
SendInitialize(c) ==
    /\ callers[c].pc = "initialize"
    /\ request_id' = request_id + 1
    /\ \E answer \in DiscoveryOutcomes :
          callers' = [callers EXCEPT ![c] =
              IF answer = "ok"
              THEN [@ EXCEPT !.pc = "tools_list", !.n_init = @ + 1]
              ELSE [@ EXCEPT !.pc = "return", !.n_init = @ + 1,
                             !.outcome = "raised"]]
    /\ UNCHANGED <<clock, cached_tools, cache_timestamp, calls_started,
                   cache_writer, call_log, executor_tools>>
    /\ UNCHANGED <<sessionVars, execVars, auxVars>>

\* A tools/list step that forgets the capture time when the request fails
SendToolsList_drops_timestamp(c) ==
    /\ callers[c].pc = "tools_list"
    /\ request_id' = request_id + 1
    /\ \E answer \in DiscoveryOutcomes, tools_list \in ServerLists :
          /\ callers' = [callers EXCEPT ![c] =
                IF answer = "ok"
                THEN [@ EXCEPT !.pc = "write_tools", !.n_list = @ + 1,
                               !.result = tools_list \cup ADDITIONAL_TOOLS]
                ELSE [@ EXCEPT !.pc = "return", !.n_list = @ + 1,
                               !.outcome = "raised"]]
          /\ cache_timestamp' = IF answer = "ok" THEN cache_timestamp
                                ELSE NoTimestamp
    /\ UNCHANGED <<clock, cached_tools, calls_started, cache_writer, call_log,
                   executor_tools>>
    /\ UNCHANGED <<sessionVars, execVars, auxVars>>

\* The tools/list request, the check of its response, and the tool list built
\* from it and from the additional tools
SendToolsList(c) ==
    /\ callers[c].pc = "tools_list"
    /\ request_id' = request_id + 1
    /\ \E answer \in DiscoveryOutcomes, tools_list \in ServerLists :
          callers' = [callers EXCEPT ![c] =
              IF answer = "ok"
              THEN [@ EXCEPT !.pc = "write_tools", !.n_list = @ + 1,
                             !.result = tools_list \cup ADDITIONAL_TOOLS]
              ELSE [@ EXCEPT !.pc = "return", !.n_list = @ + 1,
                             !.outcome = "raised"]]
    /\ UNCHANGED <<clock, cached_tools, cache_timestamp, calls_started,
                   cache_writer, call_log, executor_tools>>
    /\ UNCHANGED <<sessionVars, execVars, auxVars>>

\* self._cached_tools = tools
WriteTools(c) ==
    /\ callers[c].pc = "write_tools"
    /\ cached_tools' = callers[c].result
    /\ cache_writer' = [cache_writer EXCEPT !.tools = callers[c].id]
    /\ callers' = [callers EXCEPT ![c].pc = "write_timestamp"]
    /\ UNCHANGED <<clock, cache_timestamp, request_id, calls_started,
                   call_log, executor_tools>>
    /\ UNCHANGED <<sessionVars, execVars, auxVars>>

\* self._cache_timestamp = datetime.now()
WriteTimestamp(c) ==
    /\ callers[c].pc = "write_timestamp"
    /\ cache_timestamp' = clock
    /\ cache_writer' = [cache_writer EXCEPT !.timestamp = callers[c].id]
    /\ callers' = [callers EXCEPT ![c].pc = "return", ![c].outcome = "ok"]
    /\ UNCHANGED <<clock, cached_tools, request_id, calls_started, call_log,
                   executor_tools>>
    /\ UNCHANGED <<sessionVars, execVars, auxVars>>

\* The caller in ToolExecutor takes the result or the exception: initialize
\* empties available_tools on an exception, refresh_tools leaves it
Return(c) ==
    /\ callers[c].pc = "return"
    /\ executor_tools' =
          IF callers[c].outcome # "raised" THEN callers[c].result
          ELSE IF callers[c].force THEN executor_tools
          ELSE {}
    /\ call_log' =
          LET entry == [call |-> callers[c], cache_after |-> Cache]
          IN  IF Len(call_log) < 2 THEN Append(call_log, entry)
              ELSE <<call_log[2], entry>>
    /\ callers' = [callers EXCEPT ![c] = IdleCaller]
    /\ UNCHANGED <<clock, cached_tools, cache_timestamp, request_id,
                   calls_started, cache_writer>>
    /\ UNCHANGED <<sessionVars, execVars, auxVars>>

\* Time passes, half a TTL at a time
Tick ==
    /\ clock < MaxTicks * (CACHE_TTL \div 2)
    /\ clock' = clock + (CACHE_TTL \div 2)
    /\ UNCHANGED <<cached_tools, cache_timestamp, request_id, callers,
                   calls_started, cache_writer, call_log, executor_tools>>
    /\ UNCHANGED <<sessionVars, execVars, auxVars>>

SessionIdle ==
    /\ pc = "idle"
    /\ state = InitialState("gemini")
    /\ providers_up = {}
    /\ evaluator_passes = 0
    /\ became_complete = 0
    /\ prompted = None
    /\ rejected_book = FALSE

NotRun == [raised |-> "not_run", errors |-> {}, request |-> NoRequest,
           call |-> None]

NoArgs == [tool_name |-> None, input_data |-> NoInput, outcome |-> "data"]

ExecIdle ==
    /\ exec_args = NoArgs
    /\ exec_result = NotRun

\* AutonomousAgent.run has not returned
NotReturned == [how |-> "running", state |-> InitialState("gemini")]

AuxIdle ==
    /\ RouterIdle
    /\ run_result = NotReturned
    /\ reported = <<>>
    /\ snapshot = NoSnapshot
    /\ final_calls = <<>>
    /\ pending = NoPending
    /\ parser = NotParsed
    /\ web = NoWeb
    /\ authors_storage = NoAuthors

----------------------------------------------------------------------------
(* The run of one session: create_agent_graph's nodes and edges *)

\* Node executions since is_complete turned true: 1 at the end of the node
\* (or of the routing) that set it
age_after(old, new, age) ==
    IF ~new.is_complete THEN 0
    ELSE IF ~old.is_complete THEN 1
    ELSE age + 1

\* The sets of providers with a credential that a run is started under
ConfiguredProviders == {{}, {"gemini", "openai"}}

Init ==
    /\ pc = "initialize"
    /\ state = InitialState("gemini")
    /\ executor_tools = {}
    /\ providers_up \in ConfiguredProviders
    /\ evaluator_passes = 0
    /\ became_complete = 0
    /\ prompted = None
    /\ rejected_book = FALSE
    /\ ClientIdle
    /\ AuxIdle
    /\ ExecIdle

Initialize ==
    /\ pc = "initialize"
    /\ \E tools \in DiscoveryResults :
          /\ executor_tools' = tools
          /\ state' = initialize_node(state, tools)
    /\ pc' = "planner"
    /\ became_complete' = age_after(state, state', became_complete)
    /\ UNCHANGED <<providers_up, evaluator_passes, prompted, rejected_book>>
    /\ UNCHANGED <<clientVars, execVars, auxVars>>

Planner ==
    /\ pc = "planner"
    /\ \E failing \in SUBSET providers_up, body \in PlanResponses :
          state' = planner_node(state, providers_up, Reply(failing, body))
    /\ pc' = "tool_caller"
    /\ became_complete' = age_after(state, state', became_complete)
    /\ UNCHANGED <<executor_tools, providers_up, evaluator_passes, prompted,
                   rejected_book>>
    /\ UNCHANGED <<clientVars, execVars, auxVars>>

ToolCaller ==
    /\ pc = "tool_caller"
    /\ \E reply \in Replies(providers_up, SelectionResponses),
          outcome \in ServerOutcomes :
          LET sel == select_next_tool(state, providers_up, reply).selection
              x == execute_tool(executor_tools, sel.tool_name, sel.inputs, outcome)
          IN  /\ state' = tool_caller_node(state, executor_tools, providers_up,
                                           reply, outcome)
              /\ prompted' = IF sel.kind = "prompt_user" THEN sel.prompt
                             ELSE prompted
              /\ rejected_book' =
                    \/ rejected_book
                    \/ /\ sel.kind = "tool"
                       /\ sel.tool_name \in BOOK_TOOLS
                       /\ x.raised = "invalid_input"
                       /\ \E err \in x.errors : err[1] = "missing"
    /\ pc' = "executor"
    /\ became_complete' = age_after(state, state', became_complete)
    /\ UNCHANGED <<executor_tools, providers_up, evaluator_passes>>
    /\ UNCHANGED <<clientVars, execVars, auxVars>>

Executor ==
    /\ pc = "executor"
    /\ state' = executor_node(state)
    /\ pc' = "evaluator"
    /\ became_complete' = age_after(state, state', became_complete)
    /\ UNCHANGED <<executor_tools, providers_up, evaluator_passes, prompted,
                   rejected_book>>
    /\ UNCHANGED <<clientVars, execVars, auxVars>>

Evaluator ==
    /\ pc = "evaluator"
    /\ \E e \in Replies(providers_up, EvaluationResponses) \cup {Fault},
          f \in Replies(providers_up, LLMTexts) :
          state' = evaluator_node(state, executor_tools, providers_up, e, f)
    /\ pc' = "route"
    /\ evaluator_passes' = evaluator_passes + 1
    /\ became_complete' = age_after(state, state', became_complete)
    /\ UNCHANGED <<executor_tools, providers_up, prompted, rejected_book>>
    /\ UNCHANGED <<clientVars, execVars, auxVars>>

\* The conditional edge from evaluator
Route ==
    /\ pc = "route"
    /\ state' = should_continue(state).state
    /\ pc' = should_continue(state).next
    /\ became_complete' = IF state'.is_complete /\ ~state.is_complete THEN 1
                          ELSE became_complete
    /\ UNCHANGED <<executor_tools, providers_up, evaluator_passes, prompted,
                   rejected_book>>
    /\ UNCHANGED <<clientVars, execVars, auxVars>>

Finish ==
    /\ pc = "finish"
    /\ \E f \in Replies(providers_up, LLMTexts) :
          state' = finish_node(state, providers_up, f)
    /\ pc' = "END"
    /\ became_complete' = age_after(state, state', became_complete)
    /\ UNCHANGED <<executor_tools, providers_up, evaluator_passes, prompted,
                   rejected_book>>
    /\ UNCHANGED <<clientVars, execVars, auxVars>>

Next ==
    \/ Initialize
    \/ Planner
    \/ ToolCaller
    \/ Executor
    \/ Evaluator
    \/ Route
    \/ Finish

Spec == Init /\ [][Next]_vars

\* The graph runs the node that is due: a run does not stop between nodes
FairSpec == Spec /\ WF_vars(Next)

----------------------------------------------------------------------------
(* AutonomousAgent.run around the graph *)

\* A conversion that leaves is_complete at its default
final_state_default_is_complete(result) ==
    [result EXCEPT !.original_plan_steps = <<>>, !.start_time = None,
                   !.is_complete = FALSE]

\* The AgentState run builds from the dictionary the graph returns: the
\* fields it copies, the others at their defaults
final_state(result) ==
    [result EXCEPT !.original_plan_steps = <<>>, !.start_time = None]

\* graph.ainvoke has returned: its result is a dictionary, which run converts,
\* or an AgentState, which run returns as it is
ReturnResult ==
    /\ pc = "END"
    /\ run_result = NotReturned
    /\ \E as_dict \in BOOLEAN :
          run_result' = IF as_dict
                        THEN [how |-> "result", state |-> final_state(state)]
                        ELSE [how |-> "result", state |-> state]
    /\ pc' = "returned"
    /\ UNCHANGED <<state, executor_tools, providers_up, evaluator_passes,
                   became_complete, prompted, rejected_book>>
    /\ UNCHANGED <<clientVars, execVars, routerVars, reported, snapshot,
                   final_calls, pending, parser, web, authors_storage>>

\* An exception escapes graph.ainvoke (a node raises past its handler, the
\* graph engine gives up): run marks its initial_state, which the nodes have
\* or have not written to, complete with an apology
GraphFails ==
    /\ pc \notin {"END", "returned"}
    /\ run_result = NotReturned
    /\ \E initial_state \in {InitialState(state.selected_llm), state} :
          run_result' =
             [how |-> "exception",
              state |-> mark_complete(add_error(initial_state, Failure),
                                      "Sorry, I encountered an error")]
    /\ pc' = "returned"
    /\ UNCHANGED <<state, executor_tools, providers_up, evaluator_passes,
                   became_complete, prompted, rejected_book>>
    /\ UNCHANGED <<clientVars, execVars, routerVars, reported, snapshot,
                   final_calls, pending, parser, web, authors_storage>>

RunNext ==
    \/ Next
    \/ ReturnResult
    \/ GraphFails

RunSpec == Init /\ [][RunNext]_vars

----------------------------------------------------------------------------
(* Two sessions of the web application on the one tool_executor *)

\* The initialize node of another session's run, in its own thread:
\* ToolExecutor.initialize assigns available_tools of the shared executor.
\* Of this session's nodes only the tool caller reads that list, so the
\* other thread is let in when the tool caller is due
OtherSessionInitializes ==
    /\ pc = "tool_caller"
    /\ \E tools \in DiscoveryResults : executor_tools' = tools
    /\ UNCHANGED <<sessionVars, clientVars, execVars, auxVars>>

SharedSpec == Init /\ [][Next \/ OtherSessionInitializes]_vars

----------------------------------------------------------------------------
(* The discovery cache: one caller, then two *)

CacheInit ==
    /\ ClientIdle
    /\ AuxIdle
    /\ SessionIdle
    /\ ExecIdle
    /\ executor_tools = {}

\* One caller at a time: a discovery returns before the next one starts
CacheNext ==
    \/ Tick
    \/ \E force \in BOOLEAN : StartCall(1, force)
    \/ SendInitialize(1)
    \/ SendToolsList(1)
    \/ WriteTools(1)
    \/ WriteTimestamp(1)
    \/ Return(1)

CacheSpec == CacheInit /\ [][CacheNext]_vars

\* Two sessions start on their own threads: run's initialize_node calls
\* tool_executor.initialize() on the one shared client
RaceNext ==
    \/ Tick
    \/ \E c \in Sessions :
          \/ StartCall(c, FALSE)
          \/ SendInitialize(c)
          \/ SendToolsList(c)
          \/ WriteTools(c)
          \/ WriteTimestamp(c)
          \/ Return(c)

RaceSpec == CacheInit /\ [][RaceNext]_vars

----------------------------------------------------------------------------
(* execute_tool on every tool name and input *)

\* The names execute_tool is asked for: discovered tools in either case of
\* letters, a server tool, and a name no tool has
ExecToolNames ==
    {"create_book", "Create_Book", "get_book_by_id", "update_book",
     "get_all_books", "add_author", "add_book", "list_books", "no_such_tool"}

ExecInit ==
    /\ ClientIdle
    /\ AuxIdle
    /\ SessionIdle
    /\ executor_tools = ADDITIONAL_TOOLS \cup ServerTools
    /\ exec_args \in [tool_name : ExecToolNames, input_data : InputData,
                      outcome : {"data"}]
    /\ exec_result = NotRun

ExecuteTool ==
    /\ exec_result = NotRun
    /\ \E outcome \in ServerOutcomes :
          /\ exec_args' = [exec_args EXCEPT !.outcome = outcome]
          /\ exec_result' = execute_tool(executor_tools, exec_args.tool_name,
                                         exec_args.input_data, outcome)
    /\ UNCHANGED <<sessionVars, clientVars, executor_tools, auxVars>>

ExecNext == ExecuteTool

ExecSpec == ExecInit /\ [][ExecNext]_vars

----------------------------------------------------------------------------
(* should_continue on every session state *)

\* The longest error log a routed state holds
MaxRouteErrors == 5

RECURSIVE Repeat(_, _)
Repeat(x, n) == IF n = 0 THEN <<>> ELSE Append(Repeat(x, n - 1), x)

\* Lengths of execution_steps and of completed_steps
RouteShapes ==
    {shape \in (0..MaxPlanLen) \X (0..MaxPlanLen) : shape[2] <= shape[1]}

\* The session states the evaluator can hand to the routing function, by the
\* fields it reads
RouteStates ==
    {[InitialState("gemini") EXCEPT
          !.is_complete = complete,
          !.needs_user_input = needs,
          !.errors = Repeat(Failure, e),
          !.execution_steps = Repeat(ToolStep, shape[1]),
          !.completed_steps = Repeat(ToolStep, shape[2]),
          !.final_response = IF complete THEN "answer" ELSE None] :
        complete \in BOOLEAN, needs \in BOOLEAN, e \in 0..MaxRouteErrors,
        shape \in RouteShapes}

RouteInit ==
    /\ ClientIdle
    /\ AuxIdle
    /\ ExecIdle
    /\ executor_tools = {}
    /\ pc = "route"
    /\ state \in RouteStates
    /\ providers_up = {}
    /\ evaluator_passes = 1
    /\ became_complete = 0
    /\ prompted = None
    /\ rejected_book = FALSE

RouteNext == Route

RouteSpec == RouteInit /\ [][RouteNext]_vars

----------------------------------------------------------------------------
(* The snapshot of a discovery on every list the server can report *)

MaxReported == 3

\* The names a server reports: its own, names of additional tools, and the
\* "" a tool without a name is given
ReportedNames == {"list_books", "get_all_books", "create_book", ""}

DiscoverInit ==
    /\ ClientIdle
    /\ SessionIdle
    /\ ExecIdle
    /\ executor_tools = {}
    /\ RouterIdle
    /\ run_result = NotReturned
    /\ reported \in SeqsUpTo(ReportedNames, MaxReported)
    /\ snapshot = NoSnapshot
    /\ final_calls = <<>>
    /\ pending = NoPending
    /\ parser = NotParsed
    /\ web = NoWeb
    /\ authors_storage = NoAuthors

Discover ==
    /\ snapshot = NoSnapshot
    /\ snapshot' = [returned |-> TRUE, tools |-> discovered_tools(reported)]
    /\ UNCHANGED <<reported, coreVars, routerVars, run_result, final_calls,
                   pending, parser, web, authors_storage>>

DiscoverSpec == DiscoverInit /\ [][Discover]_vars

----------------------------------------------------------------------------
(* generate_final_response called again and again on one session *)

MaxFinalCalls == 2

\* A session before the first call: no final answer, or one marked complete
\* with an empty or with a readable answer
FinalInit ==
    /\ ClientIdle
    /\ ExecIdle
    /\ executor_tools = {}
    /\ RouterIdle
    /\ run_result = NotReturned
    /\ reported = <<>>
    /\ snapshot = NoSnapshot
    /\ pc = "idle"
    /\ \E llm \in ProviderSet :
          state \in {InitialState(llm)}
                       \cup {mark_complete(InitialState(llm), t) :
                                t \in {"", "earlier answer"}}
    /\ providers_up \in SUBSET ProviderSet
    /\ evaluator_passes = 0
    /\ became_complete = 0
    /\ prompted = None
    /\ rejected_book = FALSE
    /\ final_calls = <<>>
    /\ pending = NoPending
    /\ parser = NotParsed
    /\ web = NoWeb
    /\ authors_storage = NoAuthors

\* One call as the nodes make it: the text returned is stored with
\* mark_complete. The model is asked unless the existing answer is returned
GenerateFinalResponse ==
    /\ Len(final_calls) < MaxFinalCalls
    /\ \E failing \in SUBSET ProviderSet,
          body \in LLMTexts \cup {"another answer"} :
          LET reply == Reply(failing, body)
              text == generate_final_response(state, providers_up, reply)
          IN  /\ final_calls' =
                    Append(final_calls,
                           [text |-> text,
                            asked_model |-> ~Truthy(state.final_response)])
              /\ state' = mark_complete(state, text)
    /\ UNCHANGED <<pc, providers_up, evaluator_passes, became_complete,
                   prompted, rejected_book, executor_tools>>
    /\ UNCHANGED <<clientVars, execVars, routerVars, run_result, reported,
                   snapshot, pending, parser, web, authors_storage>>

FinalSpec == FinalInit /\ [][GenerateFinalResponse]_vars

----------------------------------------------------------------------------
(* One request to a backend that answers or never does *)

\* config.TOOL_TIMEOUT, in seconds
TOOL_TIMEOUT == 3

\* Whether the await of a request ends by itself: the HTTP transport passes
\* timeout=self.timeout to httpx, the subprocess transport awaits
\* process.communicate() without one, and the provider clients pass none, so
\* that the SDK's own default, if it has one, decides
has_timeout(request) ==
    CASE request.kind = "llm" -> request.sdk_timeout
      [] request.transport = "http" -> TRUE
      [] OTHER -> FALSE

WaitInit ==
    /\ ClientIdle
    /\ SessionIdle
    /\ ExecIdle
    /\ executor_tools = {}
    /\ RouterIdle
    /\ run_result = NotReturned
    /\ reported = <<>>
    /\ snapshot = NoSnapshot
    /\ final_calls = <<>>
    /\ parser = NotParsed
    /\ web = NoWeb
    /\ authors_storage = NoAuthors
    /\ \E responds \in BOOLEAN :
          \/ \E provider \in ProviderSet, sdk_timeout \in BOOLEAN :
                pending = [NoPending EXCEPT !.kind = "llm",
                                            !.transport = "sdk",
                                            !.provider = provider,
                                            !.sdk_timeout = sdk_timeout,
                                            !.responds = responds]
          \/ \E kind \in {"tool", "discovery"}, mode \in {"http", "stdio"} :
                pending = [NoPending EXCEPT !.kind = kind,
                                            !.transport = mode,
                                            !.responds = responds]

\* The request is sent and awaited
Send ==
    /\ pending.pc = "idle"
    /\ pending' = [pending EXCEPT !.pc = "waiting"]
    /\ UNCHANGED <<coreVars, routerVars, run_result, reported, snapshot,
                   final_calls, parser, web, authors_storage>>

\* A second passes
Wait ==
    /\ pending.pc = "waiting"
    /\ pending.elapsed < TOOL_TIMEOUT
    /\ pending' = [pending EXCEPT !.elapsed = @ + 1]
    /\ UNCHANGED <<coreVars, routerVars, run_result, reported, snapshot,
                   final_calls, parser, web, authors_storage>>

\* The backend answers
Respond ==
    /\ pending.pc = "waiting"
    /\ pending.responds
    /\ pending' = [pending EXCEPT !.pc = "returned"]
    /\ UNCHANGED <<coreVars, routerVars, run_result, reported, snapshot,
                   final_calls, parser, web, authors_storage>>

\* The await is ended by its timeout: the call raises
TimeOut ==
    /\ pending.pc = "waiting"
    /\ has_timeout(pending)
    /\ pending.elapsed >= TOOL_TIMEOUT
    /\ pending' = [pending EXCEPT !.pc = "raised"]
    /\ UNCHANGED <<coreVars, routerVars, run_result, reported, snapshot,
                   final_calls, parser, web, authors_storage>>

WaitNext ==
    \/ Send
    \/ Wait
    \/ Respond
    \/ TimeOut

\* The event loop resumes what can go on
WaitSpec == WaitInit /\ [][WaitNext]_vars /\ WF_vars(WaitNext)

----------------------------------------------------------------------------
(* The author tools, called one after the other on one client *)

AuthorInit ==
    /\ ClientIdle
    /\ SessionIdle
    /\ ExecIdle
    /\ executor_tools = {}
    /\ RouterIdle
    /\ run_result = NotReturned
    /\ reported = <<>>
    /\ snapshot = NoSnapshot
    /\ final_calls = <<>>
    /\ pending = NoPending
    /\ parser = NotParsed
    /\ web = NoWeb
    /\ authors_storage = NoAuthors

\* One call of call_tool for an author tool
CallAuthorTool ==
    /\ authors_storage.calls < MaxAuthorCalls
    /\ \E tool_name \in AUTHOR_TOOLS, name \in AuthorNames,
          new_name \in AuthorNames \cup {Absent} :
          LET r == handle_author_tool(authors_storage.storage, tool_name,
                                      name, new_name)
          IN  authors_storage' =
                 [storage |-> r.storage,
                  calls |-> authors_storage.calls + 1,
                  last |-> [tool_name |-> tool_name, name |-> name,
                            new_name |-> new_name, result |-> r.result,
                            before |-> authors_storage.storage]]
    /\ UNCHANGED <<coreVars, routerVars, run_result, reported, snapshot,
                   final_calls, pending, parser, web>>

AuthorSpec == AuthorInit /\ [][CallAuthorTool]_vars

----------------------------------------------------------------------------
(* One chat request and an event stream on its session *)

\* chat up to the start of the thread: the user's message is stored and the
\* status is processing; the session may hold earlier messages
StreamInit ==
    /\ ClientIdle
    /\ SessionIdle
    /\ ExecIdle
    /\ executor_tools = {}
    /\ RouterIdle
    /\ run_result = NotReturned
    /\ reported = <<>>
    /\ snapshot = NoSnapshot
    /\ final_calls = <<>>
    /\ pending = NoPending
    /\ parser = NotParsed
    /\ authors_storage = NoAuthors
    /\ \E earlier \in 0..MaxEarlier :
          web = [NoWeb EXCEPT
                   !.session = [status |-> "processing",
                                messages |-> Repeat([role |-> "assistant",
                                                     content |-> "earlier"],
                                                    earlier)
                                   \o <<[role |-> "user", content |-> "goal"]>>],
                   !.run_agent = "running"]

streamUnchanged == <<coreVars, routerVars, run_result, reported, snapshot,
                     final_calls, pending, parser, authors_storage>>

\* run_agent: agent.run has returned, the status is set
SetStatus ==
    /\ web.run_agent = "running"
    /\ \E status \in {"completed", "error"} :
          web' = [web EXCEPT !.session.status = status, !.run_agent = status]
    /\ UNCHANGED streamUnchanged

\* run_agent: the final response, or the apology, is appended
AddResponse ==
    /\ web.run_agent \in {"completed", "error"}
    /\ \E response \in {"answer", "another answer"} :
          web' = [web EXCEPT
                    !.session = session_add_message(
                                    @, "assistant",
                                    IF web.run_agent = "error" THEN "Sorry"
                                    ELSE response),
                    !.run_agent = "done"]
    /\ UNCHANGED streamUnchanged

\* stream_session up to its loop
OpenStream ==
    /\ web.stream.pc = "closed"
    /\ web' = [web EXCEPT
                 !.stream.pc = "messages",
                 !.stream.last_message_count = Len(web.session.messages)]
    /\ UNCHANGED streamUnchanged

\* The loop's first half: the messages not yet sent are sent
PollMessages ==
    /\ web.stream.pc = "messages"
    /\ LET messages == web.session.messages
           new_messages == SubSeq(messages, web.stream.last_message_count + 1,
                                  Len(messages))
           events == [i \in 1..Len(new_messages) |->
                        [type |-> "message", data |-> new_messages[i].content]]
       IN  web' = [web EXCEPT !.stream.pc = "status",
                              !.stream.sent = @ \o events,
                              !.stream.last_message_count = Len(messages)]
    /\ UNCHANGED streamUnchanged

\* The loop's second half: the status is sent when it is new, and the loop
\* ends once a final status has been sent; else it sleeps and goes round
PollStatus ==
    /\ web.stream.pc = "status"
    /\ LET st == web.stream
           current_status == web.session.status
           should_send_status ==
               \/ current_status # st.last_status
               \/ current_status \in {"completed", "error"} /\ ~st.status_sent
           sends == /\ should_send_status
                    /\ ~(current_status = "completed" /\ st.completion_sent)
           final == current_status \in {"completed", "error"}
           status_sent == st.status_sent \/ (sends /\ final)
       IN  web' = [web EXCEPT
                     !.stream.sent =
                         IF sends
                         THEN Append(@, [type |-> "status",
                                         data |-> current_status])
                         ELSE @,
                     !.stream.last_status =
                         IF sends THEN current_status ELSE @,
                     !.stream.status_sent = status_sent,
                     !.stream.completion_sent =
                         @ \/ (sends /\ current_status = "completed"),
                     !.stream.pc = IF final /\ status_sent THEN "ended"
                                   ELSE "messages"]
    /\ UNCHANGED streamUnchanged

StreamNext ==
    \/ SetStatus
    \/ AddResponse
    \/ OpenStream
    \/ PollMessages
    \/ PollStatus

StreamSpec == StreamInit /\ [][StreamNext]_vars

----------------------------------------------------------------------------
(* The parsers on every response text of up to MaxTextLen tokens *)

ParseInit ==
    /\ ClientIdle
    /\ SessionIdle
    /\ ExecIdle
    /\ executor_tools = {}
    /\ RouterIdle
    /\ run_result = NotReturned
    /\ reported = <<>>
    /\ snapshot = NoSnapshot
    /\ final_calls = <<>>
    /\ pending = NoPending
    /\ web = NoWeb
    /\ authors_storage = NoAuthors
    /\ \E response \in SeqsUpTo(ResponseTokens, MaxTextLen) :
          parser = [NotParsed EXCEPT !.response = response]

\* One parser is applied to the response
ParseResponse ==
    /\ ~parser.returned
    /\ parser' = [parser EXCEPT !.returned = TRUE,
                                !.result = extract_json(parser.response)]
    /\ UNCHANGED <<coreVars, routerVars, run_result, reported, snapshot,
                   final_calls, pending, web, authors_storage>>

ParseSpec == ParseInit /\ [][ParseResponse]_vars

----------------------------------------------------------------------------
(* The router on every set of credentials, preference and failing providers *)

RouterInit ==
    /\ ClientIdle
    /\ SessionIdle
    /\ ExecIdle
    /\ executor_tools = {}
    /\ router_args \in [up : SUBSET ProviderSet,
                        preferred : ProviderSet \cup {None},
                        failing : SUBSET ProviderSet,
                        default : DefaultNames]
    /\ router_run = IdleRun
    /\ router_default = NotAsked
    /\ run_result = NotReturned
    /\ reported = <<>>
    /\ snapshot = NoSnapshot
    /\ final_calls = <<>>
    /\ pending = NoPending
    /\ parser = NotParsed
    /\ web = NoWeb
    /\ authors_storage = NoAuthors

\* generate_with_fallback up to its loop: providers_to_try is built
StartFallback ==
    /\ router_run.pc = "idle"
    /\ router_run' = [router_run EXCEPT
          !.pc = "calling",
          !.to_try = providers_to_try(router_args.up, router_args.preferred)]
    /\ UNCHANGED <<router_args, router_default, outsideRouter>>

\* One pass of the loop: generate_response on the next provider, which is
\* get_client and then the client's call
TryProvider ==
    /\ router_run.pc = "calling"
    /\ router_run.tried < Len(router_run.to_try)
    /\ LET provider == router_run.to_try[router_run.tried + 1]
           next == [router_run EXCEPT !.tried = @ + 1]
           called == [next EXCEPT !.calls = Append(@, provider)]
       IN  router_run' =
              IF provider \notin router_args.up
              THEN [next EXCEPT !.last_error = NotConfigured(provider)]
              ELSE IF provider \in router_args.failing
              THEN [called EXCEPT !.last_error = ErrorOf(provider)]
              ELSE [called EXCEPT !.pc = "returned",
                                  !.text = TextOf(provider),
                                  !.provider = provider]
    /\ UNCHANGED <<router_args, router_default, outsideRouter>>

\* The loop is over: raise "All LLM providers failed. Last error: ..."
AllFailed ==
    /\ router_run.pc = "calling"
    /\ router_run.tried = Len(router_run.to_try)
    /\ router_run' = [router_run EXCEPT !.pc = "raised",
                                        !.cited = router_run.last_error]
    /\ UNCHANGED <<router_args, router_default, outsideRouter>>

GetDefaultProvider ==
    /\ router_default = NotAsked
    /\ router_default' = get_default_provider(router_args.up, router_args.default)
    /\ UNCHANGED <<router_args, router_run, outsideRouter>>

RouterNext ==
    \/ StartFallback
    \/ TryProvider
    \/ AllFailed
    \/ GetDefaultProvider

RouterSpec == RouterInit /\ [][RouterNext]_vars

----------------------------------------------------------------------------
(* Properties of a run *)

\* A final answer the user can read: a string that is not empty
NonEmptyText(t) == t \notin {None, "", NonString}

C2_FinalResponseNonEmpty ==
    pc = "END" => NonEmptyText(state.final_response)

\* C3: in every state of a run, completed_steps is no longer than
\* execution_steps
C3_CompletedWithinPlan ==
    Len(state.completed_steps) <= Len(state.execution_steps)

\* A plan whose rendering failed part-way, every rendered step completed
C3_Witness ==
    /\ Len(state.original_plan_steps) > Len(state.execution_steps)
    /\ Len(state.execution_steps) > 0
    /\ Len(state.completed_steps) = Len(state.execution_steps)

\* C4: once is_complete has turned true, final_response is non-empty at the
\* end of the node that set it or at the end of the node run next
C4_CompleteHasResponse ==
    (became_complete >= 2 \/ (became_complete >= 1 /\ pc = "END"))
        => NonEmptyText(state.final_response)

\* C6: a run in which tool_caller met a user-input step ends with
\* needs_user_input set, the prompt as the last assistant message, and the
\* prompt step among the completed steps
C6_PromptEndsRun ==
    (pc = "END" /\ prompted # None) =>
        /\ state.needs_user_input
        /\ state.messages.last = [role |-> "assistant", content |-> prompted]
        /\ \E i \in 1..Len(state.completed_steps) :
              state.completed_steps[i].prompt = prompted

\* C7: a run in which a create-record call was rejected for a missing
\* required field ends with the field-by-field guidance as its final answer
C7_GuidanceOnRejectedCreate ==
    (pc = "END" /\ rejected_book) =>
        state.final_response = "field-by-field guidance"

----------------------------------------------------------------------------
(* Properties of the routing function *)

\* The rule of the routing order that matches a session state first
C5_Rule(s) ==
    IF s.is_complete THEN 1
    ELSE IF Len(s.errors) > 3 THEN 2
    ELSE IF s.needs_user_input THEN 3
    ELSE IF Len(s.execution_steps) = 0 THEN 4
    ELSE IF Len(s.completed_steps) >= Len(s.execution_steps) THEN 5
    ELSE 6

C5_Target == <<"finish", "finish", "finish", "planner", "finish", "tool_caller">>

\* C5: the routing function goes where the first matching rule says, sets
\* is_complete in the second rule, and changes no other field of the state
C5_RoutingPriority ==
    [][pc = "route" =>
          /\ pc' = C5_Target[C5_Rule(state)]
          /\ state' = IF C5_Rule(state) = 2
                      THEN [state EXCEPT !.is_complete = TRUE]
                      ELSE state]_vars

\* Routed by the second rule where the third and the fourth match as well
C5_Witness ==
    /\ pc = "finish"
    /\ evaluator_passes = 1
    /\ Len(state.errors) > 3
    /\ state.needs_user_input
    /\ Len(state.execution_steps) = 0
    /\ state.is_complete
    /\ state.final_response = None

----------------------------------------------------------------------------
(* Properties of execute_tool *)

\* A value of the type a schema declares: in JSON a boolean is no number
C8_HasDeclaredType(kind, declared) ==
    IF declared = "string" THEN kind = "str"
    ELSE IF declared = "integer" THEN kind = "int"
    ELSE IF declared = "number" THEN kind \in {"int", "float"}
    ELSE IF declared = "boolean" THEN kind = "bool"
    ELSE TRUE

\* The fields of an input that break the tool's schema
C8_Offending(tool, input_data) ==
    LET schema == input_schema(tool)
    IN  {f \in schema.required : input_data[f] = Absent}
        \cup {f \in DOMAIN schema.properties :
                 /\ input_data[f] # Absent
                 /\ ~C8_HasDeclaredType(input_data[f], schema.properties[f])}

\* C8: execute_tool on an input that lacks a required field or gives a field
\* a value of the wrong declared type fails, names each offending field, and
\* sends no tools/call request
C8_RejectsBeforeDispatch ==
    LET tool == get_tool_by_name(executor_tools, exec_args.tool_name)
        offending == IF tool = None THEN {}
                     ELSE C8_Offending(tool, exec_args.input_data)
    IN  (exec_result.raised # "not_run" /\ offending # {}) =>
            /\ exec_result.raised = "invalid_input"
            /\ \A f \in offending : \E err \in exec_result.errors : err[2] = f
            /\ exec_result.request = NoRequest

----------------------------------------------------------------------------
(* Properties of the discovery cache *)

\* The call began inside the TTL of the snapshot it found cached
C9_InsideTTL(call) ==
    /\ call.cache_before.timestamp # NoTimestamp
    /\ call.started_at - call.cache_before.timestamp < 300

\* A call inside the TTL returns the snapshot of the call before it and sends
\* no request
C9_ServedFromCache(i) ==
    LET call == call_log[i].call
    IN  /\ call.outcome = "hit"
        /\ call.n_init = 0
        /\ call.n_list = 0
        /\ call.result = call.cache_before.tools
        /\ (i > 1 /\ call_log[i - 1].call.outcome # "raised")
              => call.result = call_log[i - 1].call.result

\* The call left its own tool list and a fresh timestamp in the cache
C9_Replaced(i) ==
    /\ call_log[i].cache_after.tools = call_log[i].call.result
    /\ call_log[i].cache_after.timestamp >= call_log[i].call.started_at

C9_Cached(i) ==
    ~call_log[i].call.force /\ C9_InsideTTL(call_log[i].call)

\* C9 as stated: a call inside the TTL is served from the cache; a call after
\* the TTL or with force_refresh sends one initialize and one tools/list
\* request and replaces the snapshot
C9_OneDiscoveryPerRefresh ==
    \A i \in 1..Len(call_log) :
        IF C9_Cached(i) THEN C9_ServedFromCache(i)
        ELSE /\ call_log[i].call.n_init = 1
             /\ call_log[i].call.n_list = 1
             /\ C9_Replaced(i)

\* C9, amended: a call inside the TTL is served from the cache; a call after
\* the TTL or with force_refresh sends one initialize request and at most one
\* tools/list request, and when both succeed it has sent one of each and
\* replaces the snapshot
C9_OneDiscoveryAttemptPerRefresh ==
    \A i \in 1..Len(call_log) :
        IF C9_Cached(i) THEN C9_ServedFromCache(i)
        ELSE /\ call_log[i].call.n_init = 1
             /\ call_log[i].call.n_list <= 1
             /\ call_log[i].call.outcome \in {"ok", "raised"}
             /\ call_log[i].call.outcome = "ok"
                   => (call_log[i].call.n_list = 1 /\ C9_Replaced(i))

\* A call served from the cache, then a call at the moment the TTL expires that
\* discovers a different tool list
C9_Witness ==
    /\ Len(call_log) = 2
    /\ C9_Cached(1)
    /\ call_log[1].call.outcome = "hit"
    /\ ~call_log[2].call.force
    /\ call_log[2].call.started_at - call_log[2].call.cache_before.timestamp = 300
    /\ call_log[2].call.outcome = "ok"
    /\ call_log[2].call.result # call_log[1].call.result
    /\ cached_tools = call_log[2].call.result

\* The call has sent a discovery request and has not yet written the timestamp
C10_Discovering(c) ==
    /\ callers[c].n_init > 0
    /\ callers[c].pc \in {"tools_list", "write_tools", "write_timestamp"}

\* C10: of two concurrent calls at most one is discovering at a time, and
\* the snapshot and its timestamp come from one and the same call
C10_SingleFlight ==
    /\ Cardinality({c \in Sessions : C10_Discovering(c)}) <= 1
    /\ (\A c \in Sessions : callers[c].pc # "write_timestamp")
          => cache_writer.tools = cache_writer.timestamp

----------------------------------------------------------------------------
(* Properties of the router *)

\* The order the providers are to be called in: the preferred one when it
\* has a credential, then the others that have one, in the router's order
C11_Order ==
    LET preferred == router_args.preferred
        first == IF preferred \in router_args.up THEN <<preferred>> ELSE <<>>
        rest == SelectSeq(Providers,
                          LAMBDA q : q \in router_args.up /\ q # preferred)
    IN  first \o rest

\* C11: the calls made are the start of that order, so each provider is
\* called at most once and none without a credential; every call before the
\* last has failed; and the text returned is the one of the provider it is
\* paired with, the first whose call succeeded
C11_PreferredThenOthers ==
    LET calls == router_run.calls
    IN  /\ Len(calls) <= Len(C11_Order)
        /\ \A i \in 1..Len(calls) : calls[i] = C11_Order[i]
        /\ \A i \in 1..Len(calls) : calls[i] \in router_args.up
        /\ \A i, j \in 1..Len(calls) : i # j => calls[i] # calls[j]
        /\ \A i \in 1..(Len(calls) - 1) : calls[i] \in router_args.failing
        /\ router_run.pc = "returned" =>
              /\ calls # <<>>
              /\ router_run.provider = calls[Len(calls)]
              /\ router_run.provider \notin router_args.failing
              /\ router_run.text = TextOf(router_run.provider)
              /\ router_run.provider =
                    generate_with_fallback(router_args.up, router_args.preferred,
                                           router_args.failing)
        /\ router_run.pc = "raised" =>
              /\ Len(calls) = Len(C11_Order)
              /\ generate_with_fallback(router_args.up, router_args.preferred,
                                        router_args.failing) = None

\* The preferred provider and the next one failed, the third answered
C11_Witness ==
    /\ router_run.pc = "returned"
    /\ router_args.preferred = "openai"
    /\ router_run.calls = <<"openai", "gemini", "anthropic">>
    /\ router_run.provider = "anthropic"

\* C12: generate_with_fallback raises exactly when the call of every
\* provider with a credential fails; it then cites the error of the last
\* provider tried and returns no text
C12_FailsWhenAllFail ==
    LET all_fail == router_args.up \subseteq router_args.failing
    IN  /\ router_run.pc = "raised" => all_fail
        /\ router_run.pc = "returned" => ~all_fail
        /\ router_run.pc = "raised" =>
              /\ router_run.text = None
              /\ router_run.provider = None
              /\ router_run.cited =
                    IF C11_Order = <<>> THEN None
                    ELSE ErrorOf(C11_Order[Len(C11_Order)])

\* Every provider has a credential and every call failed
C12_Witness ==
    /\ router_run.pc = "raised"
    /\ router_args.up = ProviderSet
    /\ router_args.preferred = "anthropic"
    /\ router_run.cited = ErrorOf("openai")

\* C19: get_default_provider returns the configured default when it has a
\* credential, otherwise the first provider that has one, and raises, with
\* the no-provider-configured error, only when none has
C19_DefaultThenFirstAvailable ==
    LET available == get_available_providers(router_args.up)
    IN  router_default # NotAsked =>
           IF router_args.default \in router_args.up
           THEN router_default = [raised |-> None, provider |-> router_args.default]
           ELSE IF router_args.up # {}
           THEN router_default = [raised |-> None, provider |-> available[1]]
           ELSE router_default.raised = "No LLM providers are properly configured"

----------------------------------------------------------------------------
(* Properties of the iteration counter *)

\* C14: iteration_count never decreases: a pass of the executor raises it by
\* exactly one, and no other node, and no routing decision, changes it
C14_IterationCount ==
    [][state'.iteration_count =
          state.iteration_count + (IF pc = "executor" THEN 1 ELSE 0)]_vars

\* The executor has run twice and the evaluator is due
C14_Witness ==
    /\ pc = "evaluator"
    /\ state.iteration_count = 2

----------------------------------------------------------------------------
(* Properties of the tool-call records *)

\* C15: a tool-call record that execute_tool returns has exactly one of its
\* output and its error set
C15_OutputXorError ==
    (exec_result.raised = None) =>
        (exec_result.call.output # None) # (exec_result.call.error # None)

\* C20: when the tool caller has executed a tool, so that the call history
\* has grown by one record, either the output of that call is in the current
\* outputs under the tool's name or the error log has grown by one entry
C20_OutputStoredOrErrorLogged ==
    [][(pc = "tool_caller" /\ state'.tool_calls.n = state.tool_calls.n + 1) =>
          \/ /\ state'.tool_calls.last.output # None
             /\ state'.tool_calls.last.name \in state'.current_tool_outputs
          \/ Len(state'.errors) = Len(state.errors) + 1]_vars

----------------------------------------------------------------------------
(* Properties of AutonomousAgent.run *)

\* C13: the state that run returns has is_complete set, whether the graph
\* ran to the end of finish or an exception escaped it
C13_ReturnsComplete ==
    run_result # NotReturned => run_result.state.is_complete = TRUE

\* A run that stopped to ask the user has returned, converted from the
\* graph's dictionary
C13_Witness ==
    /\ run_result.how = "result"
    /\ run_result.state.needs_user_input
    /\ run_result.state.is_complete
    /\ run_result.state.start_time = None

----------------------------------------------------------------------------
(* Properties of the discovery snapshot *)

\* C16: a snapshot holds the server's list and every additional tool's name;
\* a name the server reported occurs as often as the server reported it, and
\* one it did not report occurs once, so no duplicate is added; the snapshot
\* is not empty
C16_SnapshotHasLocalTools ==
    LET Count(list, name) == Cardinality({i \in 1..Len(list) : list[i] = name})
        tools == snapshot.tools
    IN  snapshot.returned =>
           /\ tools # <<>>
           /\ SubSeq(tools, 1, Len(reported)) = reported
           /\ \A name \in ADDITIONAL_TOOLS :
                 Count(tools, name) =
                    IF Count(reported, name) > 0 THEN Count(reported, name)
                    ELSE 1
           /\ \A i \in 1..Len(tools) :
                 i > Len(reported) => tools[i] \in ADDITIONAL_TOOLS

\* The server reported one of the additional tools and one of its own
C16_Witness ==
    /\ reported = <<"get_all_books", "list_books">>
    /\ snapshot.returned
    /\ Len(snapshot.tools) = Len(additional_tools) + 1

----------------------------------------------------------------------------
(* Properties of generate_final_response *)

\* C17: of two successive calls on a session, the second returns the text
\* of the first and does not ask the model
C17_SecondCallRepeatsFirst ==
    \A i \in 1..(Len(final_calls) - 1) :
        /\ final_calls[i + 1].text = final_calls[i].text
        /\ ~final_calls[i + 1].asked_model

----------------------------------------------------------------------------
(* Properties of a request that is not answered *)

\* C18: a request that is awaited and never answered is ended by its
\* timeout and raises, whatever the backend and the transport
C18_UnansweredCallTimesOut ==
    (pending.pc = "waiting" /\ ~pending.responds) ~> (pending.pc = "raised")

----------------------------------------------------------------------------
(* Properties of the nodes *)

\* C21: the executor marks the next step completed and adds a snapshot to
\* the intermediate results exactly when there are current outputs and an
\* uncompleted step; otherwise it leaves both as they are
C21_ExecutorArchivesWithStep ==
    [][pc = "executor" =>
          IF /\ state.current_tool_outputs # {}
             /\ Len(state.completed_steps) < Len(state.execution_steps)
          THEN /\ state'.completed_steps =
                     Append(state.completed_steps,
                            state.execution_steps[Len(state.completed_steps) + 1])
               /\ state'.intermediate_results = state.intermediate_results + 1
          ELSE /\ state'.completed_steps = state.completed_steps
               /\ state'.intermediate_results = state.intermediate_results]_vars

\* C22: a planner pass in which no provider returned text (current_plan is
\* still unset after it) adds to the error log and leaves execution_steps
\* empty; and the routing that follows such a pass goes back to the planner
\* unless the run is complete or the error ceiling is passed
C22_FailedPlanIsRetried ==
    [][/\ (pc = "planner" /\ state'.current_plan = None) =>
             /\ Len(state'.errors) > Len(state.errors)
             /\ state'.execution_steps = <<>>
       /\ (/\ pc = "route"
           /\ state.current_plan = None
           /\ ~state.is_complete
           /\ Len(state.errors) <= ERROR_CEILING) => pc' = "planner"]_vars

\* C23: when discovery fails in the initialize node (the executor is left
\* without tools), an entry is added to the error log, the user's message is
\* added to the conversation as role user, and the planner is next
C23_DiscoveryFailureLogged ==
    [][(pc = "initialize" /\ executor_tools' = {}) =>
          /\ Len(state'.errors) = Len(state.errors) + 1
          /\ state'.messages.n = state.messages.n + 1
          /\ state'.messages.last.role = "user"
          /\ pc' = "planner"]_vars

\* C24: an evaluator pass entered at the iteration ceiling sets is_complete,
\* adds one error and changes nothing else, whatever the other checks of the
\* evaluator would have done
C24_CeilingFirst ==
    [][(pc = "evaluator" /\ state.iteration_count >= MAX_ITERATIONS) =>
          state' = [state EXCEPT !.errors = Append(@, Failure),
                                 !.is_complete = TRUE]]_vars

\* The ceiling ended a run whose steps were all completed, before an answer
\* was generated
C24_Witness ==
    /\ pc = "route"
    /\ state.iteration_count = MAX_ITERATIONS
    /\ state.execution_steps # <<>>
    /\ Len(state.completed_steps) = Len(state.execution_steps)
    /\ state.is_complete
    /\ state.final_response = None

\* C25: the finish node run with needs_user_input set adds no message and
\* changes only is_complete and final_response; the final response is the
\* content of the last message when that is an assistant's
C25_FinishReusesPrompt ==
    [][(pc = "finish" /\ state.needs_user_input) =>
          /\ state' = [state EXCEPT !.is_complete = TRUE,
                                    !.final_response = state'.final_response]
          /\ state.messages.last.role = "assistant" =>
                state'.final_response = state.messages.last.content]_vars

\* A run that asked the user ended with the prompt as its answer
C25_Witness ==
    /\ pc = "END"
    /\ state.needs_user_input
    /\ prompted # None
    /\ state.final_response = prompted
    /\ state.messages.last.content = prompted

\* C26: select_next_tool, on every state of a run and every answer of the
\* model: no selection, the state and the answer not looked at, when the run
\* is complete, has no steps or no uncompleted step; the prompt of the next
\* step, again without the model, when the plan marks it a user-input
\* request; and only otherwise what the model selected, or an error when no
\* provider answered
C26_SelectionWithoutModel ==
    \A reply \in Replies(providers_up, SelectionResponses) :
        LET r == select_next_tool(state, providers_up, reply)
            next == Len(state.completed_steps) + 1
        IN  IF \/ state.is_complete
               \/ state.execution_steps = <<>>
               \/ Len(state.completed_steps) >= Len(state.execution_steps)
            THEN r = [state |-> state, selection |-> NoSelection]
            ELSE IF /\ next <= Len(state.original_plan_steps)
                    /\ state.original_plan_steps[next].action = "prompt_user"
            THEN /\ r.state = state
                 /\ r.selection.kind = "prompt_user"
                 /\ r.selection.prompt \in
                       {state.original_plan_steps[next].prompt, DEFAULT_PROMPT}
                 /\ state.original_plan_steps[next].prompt # None =>
                       r.selection.prompt = state.original_plan_steps[next].prompt
            ELSE IF providers_up \subseteq reply.failing
            THEN r = [state |-> add_error(state, Failure),
                      selection |-> NoSelection]
            ELSE /\ r.state = state
                 /\ r.selection = parse_tool_selection(reply.body)

\* The tool caller has passed on the prompt of a user-input step
C26_Witness ==
    /\ pc = "executor"
    /\ prompted = "Which title?"
    /\ state.needs_user_input
    /\ state.messages.last.content = prompted

\* C27: when the selection is none or an error, the tool caller adds to the
\* error log and leaves every other field of the state as it was
C27_NoSelectionOnlyLogs ==
    pc = "tool_caller" =>
        \A reply \in Replies(providers_up, SelectionResponses),
           outcome \in ServerOutcomes :
            LET kind == select_next_tool(state, providers_up, reply).selection.kind
                after == tool_caller_node(state, executor_tools, providers_up,
                                          reply, outcome)
            IN  kind \in {"none", "error"} =>
                   /\ Len(after.errors) > Len(state.errors)
                   /\ SubSeq(after.errors, 1, Len(state.errors)) = state.errors
                   /\ [after EXCEPT !.errors = state.errors] = state

\* The tool caller found nothing to select in a run that has a plan without
\* steps
C27_Witness ==
    /\ pc = "executor"
    /\ state.current_plan # None
    /\ state.execution_steps = <<>>
    /\ Len(state.errors) = 1
    /\ state.tool_calls.n = 0

C29_MalformedPlanIsNoFailure ==
    pc = "planner" =>
        \A body \in PlanResponses :
            LET r == create_initial_plan(state, providers_up, Reply({}, body))
            IN  providers_up # {} =>
                   /\ ~r.error
                   /\ r.state.errors = state.errors

----------------------------------------------------------------------------
(* Properties of the parsers *)

\* The first balanced span of a text: from its first { to the } that closes it
FirstBalancedSpan(text) ==
    LET start == find(text, "{") + 1
        rest == SubSeq(text, start, Len(text))
        closes == {j \in 1..Len(rest) : Depth(rest, j) = 0}
    IN  IF start = 0 \/ closes = {} THEN <<>>
        ELSE SubSeq(rest, 1, CHOOSE j \in closes : \A k \in closes : j <= k)

HasBrace(text) == \E i \in 1..Len(text) : text[i] \in {"{", "}"}

\* C30: the span handed to json.loads is the first balanced { ... } span of
\* the response, and a response holding one well-formed object and then
\* further text with braces in it is parsed to that object
C30_FirstObjectParsed ==
    parser.returned =>
        /\ FirstBalancedSpan(parser.response) # <<>> =>
              parser.result.json_str = FirstBalancedSpan(parser.response)
        /\ \A n \in 1..Len(parser.response) :
              LET object == SubSeq(parser.response, 1, n)
                  further == SubSeq(parser.response, n + 1, Len(parser.response))
              IN  (IsJsonObject(object) /\ HasBrace(further)) =>
                     /\ parser.result.parsed
                     /\ parser.result.value = object

\* A response of one well-formed object and nothing after it is parsed to it
C30_LoneObjectParsed ==
    (parser.returned /\ IsJsonObject(parser.response)) =>
        parser.result = [json_str |-> parser.response, parsed |-> TRUE,
                         value |-> parser.response]

----------------------------------------------------------------------------
(* Properties of the dispatch *)

C32_FailedCallIsErrorRecord ==
    LET tool == get_tool_by_name(executor_tools, exec_args.tool_name)
    IN  (/\ exec_result # NotRun
         /\ tool # None
         /\ validate_tool_input(tool, exec_args.input_data) = {}) =>
            /\ exec_result.raised = None
            /\ (/\ exec_args.outcome \in {"rpc_error", "invalid_json"}
                /\ tool \notin AUTHOR_TOOLS) =>
                   /\ exec_result.request.method = "tools/call"
                   /\ exec_result.call.error # None
                   /\ exec_result.call.output = None

\* The request of a get_all_books call failed
C32_Witness ==
    /\ exec_args.tool_name = "get_all_books"
    /\ exec_args.outcome = "rpc_error"
    /\ exec_result.raised = None
    /\ exec_result.call.error = "failed"
    /\ exec_result.call.output = None

----------------------------------------------------------------------------
(* Properties of sessions that run side by side *)

\* C33: while a session is between its initialize node and its end, every
\* tool of the catalogue it planned with is found in the catalogue its tool
\* calls are resolved against, whatever another session's initialize node
\* has done in between
C33_CatalogueKeptDuringRun ==
    pc \notin {"initialize", "END"} =>
        \A tool \in state.available_tools :
            get_tool_by_name(executor_tools, tool) # None

----------------------------------------------------------------------------
(* Properties of a pass through tool caller and executor *)

\* C34: when the tool caller of a pass ends in a failure (nothing selected,
\* an unknown tool, a rejected input or a call that returned an error, each
\* of which it logs), the executor of that pass, which runs next on the
\* state the tool caller left, marks no step completed
C34_FailedPassCompletesNothing ==
    [][(pc = "tool_caller" /\ Len(state'.errors) > Len(state.errors)) =>
          /\ pc' = "executor"
          /\ executor_node(state').completed_steps = state'.completed_steps]_vars

----------------------------------------------------------------------------
(* Properties of the event stream *)

\* C35: a stream that has sent the completed status and ended has sent, at
\* an earlier position, the message with the run's final response
C35_ResponseBeforeCompleted ==
    (web.stream.pc = "ended" /\ web.session.status = "completed") =>
        \E j \in 1..Len(web.stream.sent) :
            /\ web.stream.sent[j] = [type |-> "status", data |-> "completed"]
            /\ \E i \in 1..(j - 1) :
                  /\ web.stream.sent[i].type = "message"
                  /\ web.stream.sent[i].data \in {"answer", "another answer"}

----------------------------------------------------------------------------
(* Properties of the author store *)

\* C40: the names of the stored authors are pairwise distinct, and an
\* add_author of a name that is stored returns an error and leaves the
\* store as it was
C40_AuthorNamesDistinct ==
    LET storage == authors_storage.storage
        last == authors_storage.last
    IN  /\ \A i, j \in 1..Len(storage) : i # j => storage[i] # storage[j]
        /\ (/\ last.tool_name = "add_author"
            /\ \E i \in 1..Len(last.before) : last.before[i] = last.name) =>
               (last.result = "error" /\ storage = last.before)

----------------------------------------------------------------------------
(* Properties of the final answer *)

\* C36: once final_response holds a non-empty text, no node changes it
C36_FirstAnswerStays ==
    [][state.final_response \notin {None, "", NonString} =>
          state'.final_response = state.final_response]_vars

----------------------------------------------------------------------------
(* Properties of the error log *)

\* C37: a pass of the planner, the tool caller or the evaluator makes one
\* model call or tool call at most that can fail, and adds one entry to the
\* error log at most
C37_OneEntryPerFailure ==
    [][(pc \in {"planner", "tool_caller", "evaluator"}) =>
          (Len(state'.errors) <= Len(state.errors) + 1)]_vars

----------------------------------------------------------------------------
(* Properties of the plan *)

\* C38: the planner leaves execution_steps and original_plan_steps of one
\* length, entry i of the first being the description of entry i of the
\* second
C38_StepsMatchPlan ==
    [][(pc = "planner") =>
          /\ Len(state'.execution_steps) = Len(state'.original_plan_steps)
          /\ \A i \in 1..Len(state'.execution_steps) :
                state'.execution_steps[i] =
                   render_step(state'.original_plan_steps[i], i)]_vars

----------------------------------------------------------------------------
(* Properties of a failed discovery *)

\* C39: a discover_tools call that raised, forced or not, has left the
\* cached snapshot and its capture time as it found them, and a call that is
\* not forced and begins inside the TTL of a snapshot returns that snapshot
\* and sends no request, whatever call came before it
C39_FailedDiscoveryKeepsCache ==
    \A i \in 1..Len(call_log) :
        LET call == call_log[i].call
        IN  /\ call.outcome = "raised" =>
                  call_log[i].cache_after = call.cache_before
            /\ (/\ ~call.force
                /\ call.cache_before.timestamp # NoTimestamp
                /\ call.started_at - call.cache_before.timestamp < CACHE_TTL) =>
                   /\ call.outcome = "hit"
                   /\ call.result = call.cache_before.tools
                   /\ call.n_init = 0
                   /\ call.n_list = 0

\* A forced discovery failed on a cached snapshot, and the next call was
\* served that snapshot
C39_Witness ==
    /\ Len(call_log) = 2
    /\ call_log[1].call.force
    /\ call_log[1].call.outcome = "raised"
    /\ call_log[1].call.cache_before.timestamp # NoTimestamp
    /\ call_log[2].call.outcome = "hit"
    /\ call_log[2].call.result = call_log[1].call.cache_before.tools
    /\ cached_tools = call_log[2].call.result

====
